---------------------------- MODULE Spec2Model ----------------------------
(***************************************************************************)
(* Bookmark vault: the optimistic mutation layer of hooks/useBookmarks.ts  *)
(* (create / update / delete against the TanStack Query cache) and the     *)
(* Firestore adapter calls of lib/firestore.ts that the mutations issue.   *)
(*                                                                         *)
(* Ids are modelled as pairs <<prefix, n>>: `temp-${Date.now()}` is        *)
(* <<"temp-", n>> and a Firestore document id is <<"doc", n>>, so that     *)
(* String.startsWith("temp-") is a test of the first component.            *)
(* A query's data is [has, data]: has = FALSE is `undefined` (the query    *)
(* exists in the cache but holds no data: pending, failed or disabled).    *)
(***************************************************************************)
EXTENDS Integers, Sequences, FiniteSets, TLC

\* store    Firestore collection "bookmarks": the set of stored records
\* cache    QueryClient cache: query key -> query data
\* stale    query key -> BOOLEAN, set by invalidateQueries
\* muts     sequence of mutations (one per mutate() call of useMutation)
\* now      clock read by Date.now(), new Date() and serverTimestamp()
\* nextDoc  counter behind the document ids generated by addDoc
\* search   the call of AdvancedFirestoreService being made: its arguments,
\*          what getDocs returned to it and what it returned
\* auth     AuthContext user: the uid, or none while no identity is resolved
\* hooks    what useInfiniteBookmarks and useBookmarksCount return for the
\*          current search parameters, and whether the load-more trigger
\*          is in view
\* form     the bookmark form: mode, edited bookmark and field values
\* nav      the search box, the query string of the address bar and the
\*          search parameters of the list
\* account  the account deletion under way: its step and its outcome
VARIABLES store, cache, stale, muts, now, nextDoc, search, auth, hooks, form,
          nav, account

\* the settings page and the navigation
page == <<nav, account>>

\* what the mutations of useBookmarkMutations do not touch
view == <<search, auth, hooks, form, page>>

\* what the handlers of the mutations and the adapter work on
mutationVars == <<store, cache, stale, muts, now, nextDoc>>

vars == <<store, cache, stale, muts, now, nextDoc, view>>

(***************************************************************************)
(* Bounds                                                                  *)
(***************************************************************************)
MaxMutations == 2

(***************************************************************************)
(* Program constants                                                       *)
(***************************************************************************)
MutationRetry == 1

BOOKMARKS_QUERY_KEY == "bookmarks"

user == "u1"

(***************************************************************************)
(* Ids and records                                                         *)
(***************************************************************************)
TempId(t) == <<"temp-", t>>

DocId(n) == <<"doc", n>>

NoId == <<"none", 0>>

startsWithTemp(id) == id[1] = "temp-"

IBookmark(id, title, favorite, createdAt, updatedAt, userId) ==
    [id |-> id, title |-> title, favorite |-> favorite,
     createdAt |-> createdAt, updatedAt |-> updatedAt, userId |-> userId]

\* { ...a, ...b } : object spread, the fields of b win
Spread(a, b) ==
    [f \in (DOMAIN a) \cup (DOMAIN b) |-> IF f \in DOMAIN b THEN b[f] ELSE a[f]]

NoFields == [f \in {} |-> FALSE]

(***************************************************************************)
(* Query keys (lib/query-keys.ts) and query data                           *)
(***************************************************************************)
\* { userId, ...searchParams }; an absent query or favorite is "undefined"
Filters(userId, query, favorite) ==
    [userId |-> userId, query |-> query, favorite |-> favorite]

infinite(filters) == <<BOOKMARKS_QUERY_KEY, "infinite", filters>>

count(filters) == <<BOOKMARKS_QUERY_KEY, "count", filters>>

\* the search parameters whose queries are in the cache: no filter,
\* favourites only, and a text query whose first fetch has not returned
NoFilter == Filters(user, "undefined", "undefined")

FavoritesOnly == Filters(user, "undefined", "true")

TextQuery == Filters(user, "x", "undefined")

MountedFilters == {NoFilter, FavoritesOnly, TextQuery}

ListKeys == {infinite(f) : f \in MountedFilters}

CountKeys == {count(f) : f \in MountedFilters}

QueryKeys == ListKeys \cup CountKeys

Undefined(k) == [has |-> FALSE, data |-> IF k[2] = "count" THEN 0 ELSE <<>>]

Data(d) == [has |-> TRUE, data |-> d]

Page(bookmarks, hasMore) == [bookmarks |-> bookmarks, hasMore |-> hasMore]

\* partial query-key match of a QueryFilters { queryKey: prefix }
matchQuery(prefix, k) ==
    /\ Len(prefix) <= Len(k)
    /\ \A i \in 1..Len(prefix) : k[i] = prefix[i]

(***************************************************************************)
(* QueryClient operations used by the hooks (TanStack Query v5).           *)
(* setQueryData returns without writing when the new data is undefined.    *)
(***************************************************************************)

\* the queries a QueryFilters { queryKey: prefix } selects
findAll(c, prefix) == {q \in DOMAIN c : matchQuery(prefix, q)}

getQueriesData(c, prefix) == [k \in findAll(c, prefix) |-> c[k]]

setQueryData(c, k, d) ==
    IF d.has THEN [c EXCEPT ![k] = d] ELSE c

\* updated[k] is the value of the updater for the data of query k
setQueriesData(c, prefix, updated) ==
    [k \in DOMAIN c |->
        IF k \in findAll(c, prefix) THEN setQueryData(c, k, updated[k])[k]
        ELSE c[k]]

\* variant: only the list queries are invalidated
invalidateLists(st, prefix) ==
    [k \in DOMAIN st |->
        IF matchQuery(prefix, k) /\ k[2] = "infinite" THEN TRUE ELSE st[k]]

invalidateQueries(st, prefix) ==
    [k \in DOMAIN st |-> IF matchQuery(prefix, k) THEN TRUE ELSE st[k]]

(***************************************************************************)
(* Array helpers                                                           *)
(***************************************************************************)
\* insert x behind every element that does not sort after it (stable)
RECURSIVE InsertDesc(_, _)
InsertDesc(x, s) ==
    IF s = <<>> THEN <<x>>
    ELSE IF Head(s).updatedAt >= x.updatedAt
         THEN <<Head(s)>> \o InsertDesc(x, Tail(s))
         ELSE <<x>> \o s

\* Array.prototype.sort((a, b) => b.updatedAt - a.updatedAt), stable
RECURSIVE sortByUpdatedAtDesc(_)
sortByUpdatedAtDesc(s) ==
    IF s = <<>> THEN <<>>
    ELSE InsertDesc(s[Len(s)], sortByUpdatedAtDesc(SubSeq(s, 1, Len(s) - 1)))

(***************************************************************************)
(* Cache updaters of the three mutations (hooks/useBookmarks.ts)           *)
(***************************************************************************)
\* variant: the placeholder is put at the end of the first page
addOptimisticAtEnd(old, newBookmark, t) ==
    IF ~old.has THEN old
    ELSE LET optimisticBookmark ==
                 Spread(newBookmark,
                        [id |-> TempId(t), createdAt |-> t, updatedAt |-> t,
                         userId |-> user])
             pages == old.data
         IN  Data(IF Len(pages) >= 1
                  THEN [pages EXCEPT ![1] =
                           [@ EXCEPT !.bookmarks = @ \o <<optimisticBookmark>>]]
                  ELSE pages)

\* addBookmarkMutation.onMutate, updater of the "infinite" queries
addOptimistic(old, newBookmark, t) ==
    IF ~old.has THEN old
    ELSE LET optimisticBookmark ==
                 Spread(newBookmark,
                        [id |-> TempId(t), createdAt |-> t, updatedAt |-> t,
                         userId |-> user])
             pages == old.data
             newPages ==
                 IF Len(pages) >= 1
                 THEN [pages EXCEPT ![1] =
                          [@ EXCEPT !.bookmarks = <<optimisticBookmark>> \o @]]
                 ELSE pages
         IN  Data(newPages)

\* (old: number = 0) => old + 1
countPlusOne(old) == Data((IF old.has THEN old.data ELSE 0) + 1)

\* (old: number = 0) => Math.max(0, old - 1)
countMinusOne(old) ==
    LET n == IF old.has THEN old.data ELSE 0
    IN  Data(IF n - 1 > 0 THEN n - 1 ELSE 0)

\* addBookmarkMutation.onSuccess, updater of the "infinite" queries
replaceOptimistic(old, savedBookmark) ==
    IF ~old.has THEN old
    ELSE Data([p \in DOMAIN old.data |->
                 [old.data[p] EXCEPT !.bookmarks =
                     [x \in DOMAIN @ |->
                         IF startsWithTemp(@[x].id) THEN savedBookmark ELSE @[x]]]])

\* variant: the fields are merged in the first page only
updateOptimisticFirstPage(old, id, updates, t) ==
    IF ~old.has THEN old
    ELSE LET updatedBookmark == Spread(updates, [updatedAt |-> t])
         IN  Data(IF Len(old.data) >= 1
                  THEN [old.data EXCEPT ![1] =
                           [@ EXCEPT !.bookmarks =
                               sortByUpdatedAtDesc(
                                   [x \in DOMAIN @ |->
                                       IF @[x].id = id
                                       THEN Spread(@[x], updatedBookmark)
                                       ELSE @[x]])]]
                  ELSE old.data)

\* updateBookmarkMutation.onMutate, updater of the "infinite" queries
updateOptimistic(old, id, updates, t) ==
    IF ~old.has THEN old
    ELSE LET updatedBookmark == Spread(updates, [updatedAt |-> t])
             newPages ==
                 [p \in DOMAIN old.data |->
                     [old.data[p] EXCEPT !.bookmarks =
                         [x \in DOMAIN @ |->
                             IF @[x].id = id
                             THEN Spread(@[x], updatedBookmark) ELSE @[x]]]]
         IN  Data(IF Len(newPages) >= 1
                  THEN [newPages EXCEPT ![1] =
                           [@ EXCEPT !.bookmarks = sortByUpdatedAtDesc(@)]]
                  ELSE newPages)

\* variant: the record is removed from the first page only
deleteOptimisticFirstPage(old, deletedId) ==
    IF ~old.has THEN old
    ELSE Data(IF Len(old.data) >= 1
              THEN [old.data EXCEPT ![1] =
                       [@ EXCEPT !.bookmarks =
                           SelectSeq(@, LAMBDA bookmark : bookmark.id # deletedId)]]
              ELSE old.data)

\* deleteBookmarkMutation.onMutate, updater of the "infinite" queries
deleteOptimistic(old, deletedId) ==
    IF ~old.has THEN old
    ELSE Data([p \in DOMAIN old.data |->
                 [old.data[p] EXCEPT !.bookmarks =
                     SelectSeq(@, LAMBDA bookmark : bookmark.id # deletedId)]])

\* onError: context.previousData.forEach(([queryKey, data]) =>
\*              queryClient.setQueryData(queryKey, data))
rollback(c, previousData) ==
    [k \in DOMAIN c |->
        IF k \in DOMAIN previousData
        THEN setQueryData(c, k, previousData[k])[k] ELSE c[k]]

(***************************************************************************)
(* Firestore adapter (lib/firestore.ts)                                    *)
(***************************************************************************)
exists(st, id) == \E r \in st : r.id = id

docData(st, id) == CHOOSE r \in st : r.id = id

\* variant: only the existence of the document is checked
verifyExists(st, id, userId) == exists(st, id)

\* the ownership check of updateBookmark / deleteBookmark:
\* !(!bookmarkDoc.exists() || bookmarkDoc.data().userId !== userId)
verifyOwnership(st, id, userId) ==
    exists(st, id) /\ docData(st, id).userId = userId

\* addDoc(collection, { ...bookmark, userId, createdAt, updatedAt })
addDoc(st, docId, bookmark, userId, t) ==
    st \cup {Spread(bookmark, [id |-> docId, userId |-> userId,
                                createdAt |-> t, updatedAt |-> t])}

\* updateDoc(ref, { ...updates, updatedAt: serverTimestamp() }) on a
\* document that exists
updateDoc(st, id, updates, t) ==
    (st \ {docData(st, id)})
        \cup {Spread(docData(st, id), Spread(updates, [updatedAt |-> t]))}

\* deleteDoc(ref): succeeds whether or not the document exists
deleteDoc(st, id) == {r \in st : r.id # id}

\* the value addBookmark returns
savedBookmark(docId, bookmark, userId, t) ==
    Spread(bookmark, [id |-> docId, userId |-> userId,
                      createdAt |-> t, updatedAt |-> t])

\* the error of a mutation or query before any rejection
NoError == "null"

\* no call of AdvancedFirestoreService has been made
NoCall == [op |-> "none"]

\* AuthContext user === null
NoUser == "null"

\* a query observer before its first fetch
Pristine ==
    [status |-> "pending", fetchStatus |-> "idle", direction |-> "none",
     error |-> NoError, pages |-> <<>>, data |-> 0]

\* wire: the page reads sent to Firestore that have not returned
Unfetched ==
    [list |-> Pristine, count |-> Pristine, inView |-> FALSE, wire |-> <<>>]

\* the bookmark form is closed
NoForm == [mode |-> "closed"]

\* the list page has not been opened
NoNav == [url |-> <<>>, loaded |-> FALSE]

\* no account deletion has been asked for
NoAccount ==
    [step |-> "idle", userId |-> NoUser, batches |-> <<>>, error |-> NoError]

(***************************************************************************)
(* Initial state: four bookmarks of the signed-in user and one of another  *)
(* user are stored.  The unfiltered list (two pages) and the favourites    *)
(* list (one page) are loaded with their counts; the queries of the text   *)
(* search exist without data.                                              *)
(***************************************************************************)
r1 == IBookmark(DocId(1), "a", TRUE, 1, 1, "u1")

r2 == IBookmark(DocId(2), "b", FALSE, 2, 2, "u1")

r3 == IBookmark(DocId(3), "c", TRUE, 3, 3, "u1")

r4 == IBookmark(DocId(4), "d", FALSE, 4, 4, "u1")

r5 == IBookmark(DocId(5), "e", FALSE, 5, 5, "u2")

InitialStore == {r1, r2, r3, r4, r5}

InitialCache ==
    [k \in QueryKeys |->
        IF k = infinite(NoFilter)
            THEN Data(<<Page(<<r4, r3>>, TRUE), Page(<<r2, r1>>, TRUE)>>)
        ELSE IF k = infinite(FavoritesOnly)
            THEN Data(<<Page(<<r3, r1>>, TRUE)>>)
        ELSE IF k = count(NoFilter) THEN Data(4)
        ELSE IF k = count(FavoritesOnly) THEN Data(2)
        ELSE Undefined(k)]

Init ==
    /\ store = InitialStore
    /\ cache = InitialCache
    /\ stale = [k \in QueryKeys |-> FALSE]
    /\ muts = <<>>
    /\ now = 6
    /\ nextDoc = 6
    /\ search = NoCall
    /\ auth = user
    /\ hooks = Unfetched
    /\ form = NoForm
    /\ nav = NoNav
    /\ account = NoAccount

(***************************************************************************)
(* Inputs of the mutations                                                 *)
(***************************************************************************)
NewBookmarks == {[title |-> "n", favorite |-> FALSE, userId |-> ""]}

Updates == {[title |-> "t", favorite |-> TRUE]}

CachedBookmarks(c) ==
    UNION {UNION {{c[k].data[p].bookmarks[i] :
                      i \in 1..Len(c[k].data[p].bookmarks)} :
                  p \in 1..Len(c[k].data)} :
           k \in {q \in DOMAIN c : q[2] = "infinite" /\ c[q].has}}

CachedIds(c) == {b.id : b \in CachedBookmarks(c)}

\* the ids the callers pass to update and delete: a bookmark of the user
\* that is cached in both lists, and the bookmark of the other user
TargetIds == {DocId(1), DocId(5)}

(***************************************************************************)
(* Mutations.  phase: "onMutate" (mutate() called, onMutate awaiting       *)
(* cancelQueries), "read" (mutationFn issued, adapter awaiting getDoc),    *)
(* "write" (adapter awaiting addDoc / updateDoc / deleteDoc), "resolved"   *)
(* and "rejected" (the promise of mutationFn settled, handlers not yet     *)
(* run), "done".  context is what onMutate returned.  tempId, clean,       *)
(* overlap and log are history: the placeholder id used, whether the cache *)
(* was left alone by everything else since the optimistic apply, the       *)
(* mutations that were in flight at the same time, and the events so far.  *)
(***************************************************************************)
NoContext == [k \in {} |-> 0]

\* the error the ownership check throws
AccessDenied == "Bookmark not found or access denied"

\* catch (error) { console.error(...); throw new Error("Failed to ...") }
adapterCatch(kind, error) ==
    CASE kind = "create" -> "Failed to save bookmark"
      [] kind = "update" -> "Failed to update bookmark"
      [] OTHER -> "Failed to delete bookmark"

\* what the promise of mutationFn rejects with when `error` is thrown
\* inside the try block of the adapter
thrown(m, error) == [m EXCEPT !.error = adapterCatch(m.kind, error)]

Mutation(kind, id, variables, overlap) ==
    [kind |-> kind, id |-> id, variables |-> variables, phase |-> "onMutate",
     failureCount |-> 0, hasContext |-> FALSE, context |-> NoContext,
     tempId |-> NoId, docId |-> NoId, clean |-> FALSE, overlap |-> overlap,
     log |-> <<>>, error |-> NoError]

InFlight(ms) == {j \in DOMAIN ms : ms[j].phase # "done"}

\* useMutation(...).mutateAsync(variables): a new mutation is built
mutate(ms, kind, id, variables) ==
    Append([j \in DOMAIN ms |->
               IF j \in InFlight(ms)
               THEN [ms[j] EXCEPT !.overlap = @ \cup {Len(ms) + 1}]
               ELSE ms[j]],
           Mutation(kind, id, variables, InFlight(ms)))

\* history: a cache write by mutation i ends the quiet period of the others
Touch(ms, i, written) ==
    [j \in DOMAIN ms |->
        IF j # i /\ written /\ ms[j].clean
        THEN [ms[j] EXCEPT !.clean = FALSE] ELSE ms[j]]

\* the phase in which the Retryer (re)starts mutationFn
callPhase(m) == IF m.kind = "create" THEN "write" ELSE "read"

\* variant: a retry starts the mutation over, onMutate included
failedStartsOver(m) ==
    IF m.failureCount < MutationRetry
    THEN [m EXCEPT !.failureCount = @ + 1, !.phase = "onMutate",
                   !.log = @ \o <<"failed">>]
    ELSE [m EXCEPT !.failureCount = @ + 1, !.phase = "rejected",
                   !.log = @ \o <<"failed">>]

\* Retryer: a rejected attempt is retried while failureCount < retry
failed(m) ==
    IF m.failureCount < MutationRetry
    THEN [m EXCEPT !.failureCount = @ + 1, !.phase = callPhase(m),
                   !.log = @ \o <<"failed", "mutationFn">>]
    ELSE [m EXCEPT !.failureCount = @ + 1, !.phase = "rejected",
                   !.log = @ \o <<"failed">>]

\* throw new Error("Bookmark not found or access denied")
denied(m) == failed(thrown([m EXCEPT !.log = @ \o <<"denied">>], AccessDenied))

resolved(m) ==
    [m EXCEPT !.phase = "resolved", !.error = NoError,
              !.log = @ \o <<"resolved">>]

\* what onMutate leaves behind: the context and the issued mutationFn
started(m, previous, tempId) ==
    [m EXCEPT !.phase = callPhase(m), !.hasContext = TRUE,
              !.context = previous, !.tempId = tempId, !.clean = TRUE,
              !.log = @ \o <<"onMutate", "mutationFn">>]

settled(m, handler) ==
    [m EXCEPT !.phase = "done", !.hasContext = FALSE, !.context = NoContext,
              !.clean = FALSE, !.log = @ \o <<handler, "onSettled">>]

\* the phases whose handler continues the running task: onMutate follows
\* mutateAsync, and onError the last rejection, before any other event
Continuations == {"onMutate", "rejected"}

Running(ms) == \E j \in DOMAIN ms : ms[j].phase \in Continuations

Pending(i, kind, phase) ==
    /\ i \in DOMAIN muts
    /\ muts[i].kind = kind
    /\ muts[i].phase = phase
    /\ phase \in Continuations \/ ~Running(muts)

(***************************************************************************)
(* addBookmarkMutation                                                     *)
(***************************************************************************)
AddMutate(newBookmark) ==
    /\ Len(muts) < MaxMutations
    /\ ~Running(muts)
    /\ muts' = mutate(muts, "create", NoId, newBookmark)
    /\ UNCHANGED <<store, cache, stale, now, nextDoc, view>>

AddOnMutate(i) ==
    /\ Pending(i, "create", "onMutate")
    /\ LET previousBookmarksData ==
               getQueriesData(cache, <<BOOKMARKS_QUERY_KEY>>)
           c1 == setQueriesData(cache, <<BOOKMARKS_QUERY_KEY, "infinite">>,
                     [k \in findAll(cache, <<BOOKMARKS_QUERY_KEY, "infinite">>) |->
                         addOptimistic(cache[k], muts[i].variables, now)])
           c2 == setQueriesData(c1, <<BOOKMARKS_QUERY_KEY, "count">>,
                     [k \in findAll(c1, <<BOOKMARKS_QUERY_KEY, "count">>) |->
                         countPlusOne(c1[k])])
       IN  /\ cache' = c2
           /\ muts' = Touch([muts EXCEPT ![i] =
                                started(@, previousBookmarksData, TempId(now))],
                            i, c2 # cache)
    /\ now' = now + 1
    /\ UNCHANGED <<store, stale, nextDoc, view>>

\* FirestoreService.addBookmark: the addDoc round trip
AddBookmarkAddDoc(i) ==
    /\ Pending(i, "create", "write")
    /\ auth # NoUser
    /\ store' = addDoc(store, DocId(nextDoc), muts[i].variables, user, now)
    /\ muts' = [muts EXCEPT ![i] = [resolved(@) EXCEPT !.docId = DocId(nextDoc)]]
    /\ nextDoc' = nextDoc + 1
    /\ UNCHANGED <<cache, stale, now, view>>

AddOnSuccess(i) ==
    /\ Pending(i, "create", "resolved")
    /\ LET saved == savedBookmark(muts[i].docId, muts[i].variables, user, now)
           c1 == setQueriesData(cache, <<BOOKMARKS_QUERY_KEY, "infinite">>,
                     [k \in findAll(cache, <<BOOKMARKS_QUERY_KEY, "infinite">>) |->
                         replaceOptimistic(cache[k], saved)])
       IN  /\ cache' = c1
           /\ muts' = Touch([muts EXCEPT ![i] = settled(@, "onSuccess")],
                            i, c1 # cache)
    /\ stale' = invalidateQueries(stale, <<BOOKMARKS_QUERY_KEY>>)
    /\ UNCHANGED <<store, now, nextDoc, view>>

\* onError followed by onSettled; the three mutations have the same body
onError(i) ==
    /\ muts[i].phase = "rejected"
    /\ LET c1 == IF muts[i].hasContext
                 THEN rollback(cache, muts[i].context) ELSE cache
       IN  /\ cache' = c1
           /\ muts' = Touch([muts EXCEPT ![i] = settled(@, "onError")],
                            i, c1 # cache)
    /\ stale' = invalidateQueries(stale, <<BOOKMARKS_QUERY_KEY>>)
    /\ UNCHANGED <<store, now, nextDoc, view>>

AddOnError(i) ==
    /\ Pending(i, "create", "rejected")
    /\ onError(i)

(***************************************************************************)
(* updateBookmarkMutation                                                  *)
(***************************************************************************)
UpdateMutate(id, updates) ==
    /\ Len(muts) < MaxMutations
    /\ ~Running(muts)
    /\ muts' = mutate(muts, "update", id, updates)
    /\ UNCHANGED <<store, cache, stale, now, nextDoc, view>>

UpdateOnMutate(i) ==
    /\ Pending(i, "update", "onMutate")
    /\ LET previousData == getQueriesData(cache, <<BOOKMARKS_QUERY_KEY>>)
           c1 == setQueriesData(cache, <<BOOKMARKS_QUERY_KEY, "infinite">>,
                     [k \in findAll(cache, <<BOOKMARKS_QUERY_KEY, "infinite">>) |->
                         updateOptimistic(cache[k], muts[i].id,
                                          muts[i].variables, now)])
       IN  /\ cache' = c1
           /\ muts' = Touch([muts EXCEPT ![i] = started(@, previousData, NoId)],
                            i, c1 # cache)
    /\ now' = now + 1
    /\ UNCHANGED <<store, stale, nextDoc, view>>

\* FirestoreService.updateBookmark: getDoc and the ownership check
UpdateBookmarkGetDoc(i) ==
    /\ Pending(i, "update", "read")
    /\ auth # NoUser
    /\ muts' = [muts EXCEPT ![i] =
                    IF verifyOwnership(store, @.id, user)
                    THEN [@ EXCEPT !.phase = "write"] ELSE denied(@)]
    /\ UNCHANGED <<store, cache, stale, now, nextDoc, view>>

\* FirestoreService.updateBookmark: updateDoc, which rejects with
\* not-found when the document is gone
UpdateBookmarkUpdateDoc(i) ==
    /\ Pending(i, "update", "write")
    /\ IF exists(store, muts[i].id)
       THEN /\ store' = updateDoc(store, muts[i].id, muts[i].variables, now)
            /\ muts' = [muts EXCEPT ![i] = resolved(@)]
       ELSE /\ muts' = [muts EXCEPT ![i] = failed(thrown(@, "not-found"))]
            /\ UNCHANGED store
    /\ UNCHANGED <<cache, stale, now, nextDoc, view>>

UpdateOnSuccess(i) ==
    /\ Pending(i, "update", "resolved")
    /\ muts' = [muts EXCEPT ![i] = settled(@, "onSuccess")]
    /\ stale' = invalidateQueries(stale, <<BOOKMARKS_QUERY_KEY>>)
    /\ UNCHANGED <<store, cache, now, nextDoc, view>>

UpdateOnError(i) ==
    /\ Pending(i, "update", "rejected")
    /\ onError(i)

(***************************************************************************)
(* deleteBookmarkMutation                                                  *)
(***************************************************************************)
DeleteMutate(id) ==
    /\ Len(muts) < MaxMutations
    /\ ~Running(muts)
    /\ muts' = mutate(muts, "delete", id, NoFields)
    /\ UNCHANGED <<store, cache, stale, now, nextDoc, view>>

DeleteOnMutate(i) ==
    /\ Pending(i, "delete", "onMutate")
    /\ LET previousData == getQueriesData(cache, <<BOOKMARKS_QUERY_KEY>>)
           c1 == setQueriesData(cache, <<BOOKMARKS_QUERY_KEY, "infinite">>,
                     [k \in findAll(cache, <<BOOKMARKS_QUERY_KEY, "infinite">>) |->
                         deleteOptimistic(cache[k], muts[i].id)])
           c2 == setQueriesData(c1, <<BOOKMARKS_QUERY_KEY, "count">>,
                     [k \in findAll(c1, <<BOOKMARKS_QUERY_KEY, "count">>) |->
                         countMinusOne(c1[k])])
       IN  /\ cache' = c2
           /\ muts' = Touch([muts EXCEPT ![i] = started(@, previousData, NoId)],
                            i, c2 # cache)
    /\ UNCHANGED <<store, stale, now, nextDoc, view>>

\* FirestoreService.deleteBookmark: getDoc and the ownership check
DeleteBookmarkGetDoc(i) ==
    /\ Pending(i, "delete", "read")
    /\ auth # NoUser
    /\ muts' = [muts EXCEPT ![i] =
                    IF verifyOwnership(store, @.id, user)
                    THEN [@ EXCEPT !.phase = "write"] ELSE denied(@)]
    /\ UNCHANGED <<store, cache, stale, now, nextDoc, view>>

\* FirestoreService.deleteBookmark: deleteDoc
DeleteBookmarkDeleteDoc(i) ==
    /\ Pending(i, "delete", "write")
    /\ store' = deleteDoc(store, muts[i].id)
    /\ muts' = [muts EXCEPT ![i] = resolved(@)]
    /\ UNCHANGED <<cache, stale, now, nextDoc, view>>

DeleteOnSuccess(i) ==
    /\ Pending(i, "delete", "resolved")
    /\ muts' = [muts EXCEPT ![i] = settled(@, "onSuccess")]
    /\ stale' = invalidateQueries(stale, <<BOOKMARKS_QUERY_KEY>>)
    /\ UNCHANGED <<store, cache, now, nextDoc, view>>

DeleteOnError(i) ==
    /\ Pending(i, "delete", "rejected")
    /\ onError(i)

\* a round trip to Firestore fails (network, transient store error):
\* the awaited getDoc / addDoc / updateDoc / deleteDoc rejects
TransportFailure(i) ==
    /\ i \in DOMAIN muts
    /\ muts[i].phase \in {"read", "write"}
    /\ ~Running(muts)
    /\ auth # NoUser
    /\ muts' = [muts EXCEPT ![i] = failed(thrown(@, "unavailable"))]
    /\ UNCHANGED <<store, cache, stale, now, nextDoc, view>>

Next ==
    \/ \E b \in NewBookmarks : AddMutate(b)
    \/ \E id \in TargetIds, u \in Updates : UpdateMutate(id, u)
    \/ \E id \in TargetIds : DeleteMutate(id)
    \/ \E i \in 1..MaxMutations :
          \/ AddOnMutate(i)
          \/ AddBookmarkAddDoc(i)
          \/ AddOnSuccess(i)
          \/ AddOnError(i)
          \/ UpdateOnMutate(i)
          \/ UpdateBookmarkGetDoc(i)
          \/ UpdateBookmarkUpdateDoc(i)
          \/ UpdateOnSuccess(i)
          \/ UpdateOnError(i)
          \/ DeleteOnMutate(i)
          \/ DeleteBookmarkGetDoc(i)
          \/ DeleteBookmarkDeleteDoc(i)
          \/ DeleteOnSuccess(i)
          \/ DeleteOnError(i)
          \/ TransportFailure(i)

Spec == Init /\ [][Next]_vars

(***************************************************************************)
(* lib/firestore-advanced.ts: page fetch, text filter and count.           *)
(* A string is the sequence of its characters; an optional field that is   *)
(* absent (query, favorite, notes) is absent from the record.              *)
(***************************************************************************)
MaxDocs == 6

MaxPageSize == 2

\* String.prototype.toLowerCase, on the letters of the texts below
toLowerCase(s) ==
    [x \in DOMAIN s |->
        CASE s[x] = "A" -> "a"
          [] s[x] = "B" -> "b"
          [] s[x] = "N" -> "n"
          [] OTHER -> s[x]]

RECURSIVE trimStart(_)
trimStart(s) ==
    IF s # <<>> /\ Head(s) = " " THEN trimStart(Tail(s)) ELSE s

RECURSIVE trimEnd(_)
trimEnd(s) ==
    IF s # <<>> /\ s[Len(s)] = " " THEN trimEnd(SubSeq(s, 1, Len(s) - 1)) ELSE s

\* String.prototype.trim
trim(s) == trimEnd(trimStart(s))

\* String.prototype.includes
includes(s, searchString) ==
    \E x \in 0..(Len(s) - Len(searchString)) :
        SubSeq(s, x + 1, x + Len(searchString)) = searchString

\* Array.prototype.slice(0, n)
slice(seq, n) == SubSeq(seq, 1, IF n < Len(seq) THEN n ELSE Len(seq))

\* variant: an empty query counts as a query
hasQueryField(searchParams) == "query" \in DOMAIN searchParams

\* the truthiness of the optional string searchParams.query
hasQuery(searchParams) ==
    "query" \in DOMAIN searchParams /\ searchParams.query # <<>>

\* searchParams.query && searchParams.query.trim()
hasText(searchParams) ==
    hasQuery(searchParams) /\ trim(searchParams.query) # <<>>

\* variant: the record is matched on its title only
matchesTitle(bookmark, searchLower) ==
    includes(toLowerCase(bookmark.title), searchLower)

\* the callback of bookmarks.filter in filterBookmarksByQuery
matches(bookmark, searchLower) ==
    LET titleMatch == includes(toLowerCase(bookmark.title), searchLower)
        urlMatch == includes(toLowerCase(bookmark.url), searchLower)
        notesMatch ==
            IF "notes" \in DOMAIN bookmark
            THEN includes(toLowerCase(bookmark.notes), searchLower)
            ELSE FALSE
        tagsMatch ==
            \E x \in DOMAIN bookmark.tags :
                includes(toLowerCase(bookmark.tags[x]), searchLower)
    IN  titleMatch \/ urlMatch \/ notesMatch \/ tagsMatch

filterBookmarksByQuery(bookmarks, query) ==
    LET searchLower == trim(toLowerCase(query))
        keep(bookmark) == matches(bookmark, searchLower)
    IN  SelectSeq(bookmarks, keep)

\* where("userId", "==", userId) and, when given, where("favorite", "==", f)
where(st, userId, searchParams) ==
    {d \in st :
        /\ d.userId = userId
        /\ "favorite" \in DOMAIN searchParams => d.favorite = searchParams.favorite}

\* orderBy("updatedAt", "desc")
RECURSIVE orderBy(_)
orderBy(docs) ==
    IF docs = {} THEN <<>>
    ELSE LET d == CHOOSE x \in docs : \A y \in docs : x.updatedAt >= y.updatedAt
         IN  <<d>> \o orderBy(docs \ {d})

\* the cursor of a first page (lastDoc undefined) and of an empty result
NoDoc == [id |-> NoId]

\* startAfter(lastDoc), applied when lastDoc is truthy
startAfter(docs, lastDoc) ==
    IF lastDoc = NoDoc THEN docs
    ELSE LET after(d) == d.updatedAt < lastDoc.updatedAt
         IN  SelectSeq(docs, after)

\* getDocs(query(collection, ...constraints)) of searchBookmarks
getDocs(st, userId, searchParams, fetchSize, lastDoc) ==
    slice(startAfter(orderBy(where(st, userId, searchParams)), lastDoc), fetchSize)

\* variant: the raw fetch is never doubled
fetchSizeSingle(searchParams, pageSize) == pageSize

fetchSize(searchParams, pageSize) ==
    IF hasQuery(searchParams) THEN pageSize * 2 ELSE pageSize

\* variant: the cursor is the last record handed back
lastReturned(docs, paginatedBookmarks) ==
    IF Len(paginatedBookmarks) > 0
    THEN paginatedBookmarks[Len(paginatedBookmarks)] ELSE NoDoc

lastDocument(docs, paginatedBookmarks) ==
    IF Len(docs) > 0 THEN docs[Len(docs)] ELSE NoDoc

\* the call record of searchBookmarks: its arguments, the limit and the
\* snapshot of getDocs, the array left by the text filter, and the
\* BookmarkQueryResult it returns
searchBookmarks(st, userId, searchParams, pageSize, lastDoc) ==
    LET docs == getDocs(st, userId, searchParams,
                        fetchSize(searchParams, pageSize), lastDoc)
        bookmarks == IF hasText(searchParams)
                     THEN filterBookmarksByQuery(docs, searchParams.query)
                     ELSE docs
        paginatedBookmarks == slice(bookmarks, pageSize)
        hasMore ==
            \/ Len(bookmarks) = pageSize
            \/ /\ Len(docs) = fetchSize(searchParams, pageSize)
               /\ Len(bookmarks) >= pageSize
    IN  [op |-> "searchBookmarks", userId |-> userId,
         searchParams |-> searchParams, pageSize |-> pageSize,
         lastDoc |-> lastDoc,
         fetchSize |-> fetchSize(searchParams, pageSize), docs |-> docs,
         filtered |-> bookmarks,
         result |-> [bookmarks |-> paginatedBookmarks,
                     lastDoc |-> lastDocument(docs, paginatedBookmarks),
                     hasMore |-> hasMore,
                     totalMatches |-> Len(bookmarks)]]

\* getCountFromServer(query(collection, ...constraints))
getCountFromServer(st, userId, searchParams) ==
    Cardinality(where(st, userId, searchParams))

\* variant: the text query is ignored and the aggregate is returned
getBookmarksCountAggregate(st, userId, searchParams) ==
    [op |-> "getBookmarksCount", userId |-> userId,
     searchParams |-> searchParams, path |-> "getCountFromServer",
     result |-> getCountFromServer(st, userId, searchParams)]

\* (the snapshot of the fetch-all path is unordered; its order does not
\* enter the count)
getBookmarksCount(st, userId, searchParams) ==
    IF hasText(searchParams)
    THEN [op |-> "getBookmarksCount", userId |-> userId,
          searchParams |-> searchParams, path |-> "getDocs",
          result |-> Len(filterBookmarksByQuery(
                            orderBy(where(st, userId, searchParams)),
                            searchParams.query))]
    ELSE [op |-> "getBookmarksCount", userId |-> userId,
          searchParams |-> searchParams, path |-> "getCountFromServer",
          result |-> getCountFromServer(st, userId, searchParams)]

(***************************************************************************)
(* The stored records and the arguments of the calls.  Record n was last   *)
(* updated at time n; the texts make the query "a" match by title, by url, *)
(* by notes, by a tag, or not at all, in both letter cases.                *)
(***************************************************************************)
SearchDoc(n) ==
    LET base == [id |-> DocId(n),
                 title |-> IF n % 5 = 1 THEN <<"N", "a">> ELSE <<"b">>,
                 url |-> IF n % 5 = 2 THEN <<"x", "A">> ELSE <<"u">>,
                 tags |-> IF n % 5 = 4 THEN << <<"b">>, <<"A", "b">> >> ELSE <<>>,
                 favorite |-> (n % 2 = 1),
                 createdAt |-> n, updatedAt |-> n,
                 userId |-> IF n % 6 = 0 THEN "u2" ELSE user]
    IN  IF n % 5 = 4 THEN base
        ELSE Spread(base, [notes |-> IF n % 5 = 3 THEN <<"a", " ">> ELSE <<>>])

SearchDocs == {SearchDoc(n) : n \in 1..MaxDocs}

\* the values of ?q= and of the search box, and an empty query
Queries ==
    {<<>>, <<" ">>, <<"a">>, <<"A">>, <<" ", "a">>, <<"n", "a">>, <<"B">>, <<"z">>}

SearchParams ==
    {Spread(q, f) :
        q \in {NoFields} \cup {[query |-> t] : t \in Queries},
        f \in {NoFields} \cup {[favorite |-> v] : v \in BOOLEAN}}

PageSizes == 1..MaxPageSize

SearchInit ==
    /\ store \in SUBSET SearchDocs
    /\ cache = InitialCache
    /\ stale = [k \in QueryKeys |-> FALSE]
    /\ muts = <<>>
    /\ now = MaxDocs + 1
    /\ nextDoc = MaxDocs + 1
    /\ search = NoCall
    /\ auth = user
    /\ hooks = Unfetched
    /\ form = NoForm
    /\ nav = NoNav
    /\ account = NoAccount

\* queryFn of useInfiniteBookmarks with pageParam undefined
FetchFirstPage(searchParams, pageSize) ==
    /\ search' = searchBookmarks(store, user, searchParams, pageSize, NoDoc)
    /\ UNCHANGED <<mutationVars, auth, hooks, form, page>>

\* getNextPageParam, then queryFn with the cursor of the last page
FetchNextPage ==
    /\ search.op = "searchBookmarks"
    /\ search.result.hasMore
    /\ search' = searchBookmarks(store, user, search.searchParams,
                                 search.pageSize, search.result.lastDoc)
    /\ UNCHANGED <<mutationVars, auth, hooks, form, page>>

\* queryFn of useBookmarksCount
FetchCount(searchParams) ==
    /\ search' = getBookmarksCount(store, user, searchParams)
    /\ UNCHANGED <<mutationVars, auth, hooks, form, page>>

SearchNext ==
    \/ \E sp \in SearchParams, n \in PageSizes : FetchFirstPage(sp, n)
    \/ FetchNextPage
    \/ \E sp \in SearchParams : FetchCount(sp)

SearchSpec == SearchInit /\ [][SearchNext]_vars

(***************************************************************************)
(* The hooks while the identity changes.  onAuthStateChanged sets the      *)
(* user; the query keys hold the uid, so the hooks then observe other      *)
(* queries.  The hooks pass pageSize 20; the model passes MaxPageSize.     *)
(***************************************************************************)
Unauthenticated == "User not authenticated"

HookPageSize == MaxPageSize

\* enabled: !!user
enabled(u) == u # NoUser

\* queryFn of useInfiniteBookmarks
listQueryFn(st, u, searchParams, pageParam) ==
    IF u = NoUser
    THEN [ok |-> FALSE, error |-> Unauthenticated, call |-> NoCall]
    ELSE [ok |-> TRUE, error |-> NoError,
          call |-> searchBookmarks(st, u, searchParams, HookPageSize, pageParam)]

\* queryFn of useBookmarksCount
countQueryFn(st, u, searchParams) ==
    IF u = NoUser
    THEN [ok |-> TRUE, error |-> NoError, call |-> NoCall, data |-> 0]
    ELSE [ok |-> TRUE, error |-> NoError,
          call |-> getBookmarksCount(st, u, searchParams),
          data |-> getBookmarksCount(st, u, searchParams).result]

\* what a query observer holds once its queryFn has settled
settledQuery(q, r) ==
    IF r.ok
    THEN [q EXCEPT !.status = "success", !.fetchStatus = "idle",
                   !.direction = "none", !.error = NoError]
    ELSE [q EXCEPT !.status = "error", !.fetchStatus = "idle",
                   !.direction = "none", !.error = r.error]

\* AuthContext: onAuthStateChanged(auth, (user) => setUser(user)), between
\* mutations
OnAuthStateChanged(u) ==
    /\ u # auth
    /\ InFlight(muts) = {}
    /\ auth' = u
    /\ hooks' = Unfetched
    /\ UNCHANGED <<mutationVars, search, form, page>>

\* the observer of useInfiniteBookmarks fetches the first page
ListFetch ==
    /\ enabled(auth)
    /\ hooks.list.status = "pending"
    /\ LET r == listQueryFn(store, auth, NoFields, NoDoc)
       IN  /\ search' = r.call
           /\ hooks' = [hooks EXCEPT !.list =
                           [settledQuery(@, r) EXCEPT !.pages =
                               IF r.ok THEN <<r.call.result>> ELSE <<>>]]
    /\ UNCHANGED <<mutationVars, auth, form, page>>

\* the observer of useBookmarksCount fetches the count
CountFetch ==
    /\ enabled(auth)
    /\ hooks.count.status = "pending"
    /\ LET r == countQueryFn(store, auth, NoFields)
       IN  /\ search' = r.call
           /\ hooks' = [hooks EXCEPT !.count =
                           [settledQuery(@, r) EXCEPT !.data = r.data]]
    /\ UNCHANGED <<mutationVars, auth, form, page>>

\* mutationFn: if (!user) throw new Error("User not authenticated")
MutationFnThrows(i) ==
    /\ i \in DOMAIN muts
    /\ muts[i].phase = callPhase(muts[i])
    /\ ~Running(muts)
    /\ auth = NoUser
    /\ muts' = [muts EXCEPT ![i] = failed([@ EXCEPT !.error = Unauthenticated])]
    /\ UNCHANGED <<store, cache, stale, now, nextDoc, view>>

AuthInit ==
    /\ store = InitialStore
    /\ cache = InitialCache
    /\ stale = [k \in QueryKeys |-> FALSE]
    /\ muts = <<>>
    /\ now = 6
    /\ nextDoc = 6
    /\ search = NoCall
    /\ auth = NoUser
    /\ hooks = Unfetched
    /\ form = NoForm
    /\ nav = NoNav
    /\ account = NoAccount

AuthNext ==
    \/ \E u \in {user, NoUser} : OnAuthStateChanged(u)
    \/ ListFetch
    \/ CountFetch
    \/ \E i \in 1..MaxMutations : MutationFnThrows(i)
    \/ Next

AuthSpec == AuthInit /\ [][AuthNext]_vars

(***************************************************************************)
(* The bookmark form (BookmarkFormButton; AddBookmarkButton and            *)
(* BookmarkEdit validate and submit the same way).  A text is a sequence   *)
(* of characters.  The form carries title, url and favorite into the       *)
(* mutation; errors holds the fields validateForm has marked.              *)
(***************************************************************************)
AsciiAlpha == {"a", "b", "h", "n", "p", "t", "u", "x", "z", "A", "B", "N"}

AsciiDigit == {"0", "1"}

http == <<"h", "t", "t", "p">>

\* the schemes of the URL standard that require a host
HostSchemes == {http, http \o <<"s">>, <<"f", "t", "p">>, <<"w", "s">>,
                <<"w", "s", "s">>}

\* String.prototype.indexOf: the first position (from 1) of c, 0 if absent
indexOf(s, c) ==
    IF \E x \in DOMAIN s : s[x] = c
    THEN CHOOSE x \in DOMAIN s : s[x] = c /\ \A y \in 1..(x - 1) : s[y] # c
    ELSE 0

RECURSIVE skipSlashes(_)
skipSlashes(s) ==
    IF s # <<>> /\ Head(s) \in {"/", "\\"} THEN skipSlashes(Tail(s)) ELSE s

\* the part of an authority and path up to the first "/", "?" or "#"
hostOf(s) ==
    LET ends == {x \in DOMAIN s : s[x] \in {"/", "?", "#"}}
    IN  IF ends = {} THEN s
        ELSE SubSeq(s, 1, (CHOOSE x \in ends : \A y \in ends : x <= y) - 1)

\* new URL(input) with no base: TRUE when the parser does not throw.
\* Leading and trailing spaces are stripped; a scheme (a letter, then
\* letters, digits, "+", "-", ".") and ":" must follow; a scheme that
\* requires a host must be followed by a non-empty host, and no host may
\* hold a space
parsesAsURL(input) ==
    LET s == trimEnd(trimStart(input))
        colon == indexOf(s, ":")
        scheme == toLowerCase(SubSeq(s, 1, colon - 1))
        rest == SubSeq(s, colon + 1, Len(s))
    IN  /\ colon > 1
        /\ s[1] \in AsciiAlpha
        /\ \A x \in 2..(colon - 1) :
               s[x] \in AsciiAlpha \cup AsciiDigit \cup {"+", "-", "."}
        /\ IF scheme \in HostSchemes
           THEN /\ hostOf(skipSlashes(rest)) # <<>>
                /\ ~includes(hostOf(skipSlashes(rest)), <<" ">>)
           ELSE Len(rest) >= 2 /\ SubSeq(rest, 1, 2) = <<"/", "/">>
                    => ~includes(hostOf(SubSeq(rest, 3, Len(rest))), <<" ">>)

\* variant: only the title is validated
validateFormTitleOnly(formData) ==
    IF trim(formData.title) = <<>> THEN {"title"} ELSE {}

\* validateForm: newErrors, the fields that fail
validateForm(formData) ==
    (IF trim(formData.title) = <<>> THEN {"title"} ELSE {})
        \cup (IF trim(formData.url) = <<>> THEN {"url"}
              ELSE IF ~parsesAsURL(formData.url) THEN {"url"} ELSE {})

\* isLoading = isAdding || isUpdating
isLoading == InFlight(muts) # {}

f1 == Spread(IBookmark(DocId(1), <<"t">>, TRUE, 1, 1, user),
             [url |-> <<"a", ":", "b">>])

f2 == Spread(IBookmark(DocId(2), <<"b">>, FALSE, 2, 2, user),
             [url |-> http \o <<":", "/", "/", "a">>])

Titles == {<<>>, <<" ">>, <<" ", "t">>}

Urls == {<<>>, <<" ">>, <<"a">>, <<"1", ":">>, <<"a", ":">>,
         <<" ", "a", ":", "b">>, http \o <<":">>, http \o <<":", "/", "/">>,
         http \o <<":", "/", "/", "a">>}

FormData(mode, id, title, url, favorite) ==
    [mode |-> mode, id |-> id, title |-> title, url |-> url,
     favorite |-> favorite, errors |-> {}]

\* the trigger of the create dialog: the form is reset
OpenCreate ==
    /\ form = NoForm
    /\ ~isLoading
    /\ form' = FormData("create", NoId, <<>>, <<>>, FALSE)
    /\ UNCHANGED <<mutationVars, search, auth, hooks, page>>

\* the trigger of the edit dialog: the form is filled from the bookmark
OpenEdit(bookmark) ==
    /\ form = NoForm
    /\ ~isLoading
    /\ form' = FormData("edit", bookmark.id, bookmark.title, bookmark.url,
                        bookmark.favorite)
    /\ UNCHANGED <<mutationVars, search, auth, hooks, page>>

\* Dialog onOpenChange / Cancel
CloseModal ==
    /\ form # NoForm
    /\ form' = NoForm
    /\ UNCHANGED <<mutationVars, search, auth, hooks, page>>

\* handleInputChange(field): the value is stored, the field's error cleared
HandleInputChange(field, value) ==
    /\ form # NoForm
    /\ ~isLoading
    /\ form[field] # value
    /\ form' = [form EXCEPT ![field] = value, !.errors = @ \ {field}]
    /\ UNCHANGED <<mutationVars, search, auth, hooks, page>>

\* extractTitleFromUrl, one second after a url change in create mode: a
\* title derived from the host and path of the url is filled in
ExtractTitleFromUrl(title) ==
    /\ form # NoForm
    /\ form.mode = "create"
    /\ trim(form.url) # <<>>
    /\ trim(form.title) = <<>>
    /\ parsesAsURL(form.url)
    /\ form.title # title
    /\ form' = [form EXCEPT !.title = title]
    /\ UNCHANGED <<mutationVars, search, auth, hooks, page>>

\* the number of submissions that pass validation in one behaviour
MaxSubmits == 1

\* handleSubmit: if (!validateForm()) return; then updateBookmark or
\* addBookmark with the trimmed fields
HandleSubmit ==
    /\ form # NoForm
    /\ ~isLoading
    /\ LET newErrors == validateForm(form)
       IN  /\ form' = [form EXCEPT !.errors = newErrors]
           /\ IF newErrors # {}
              THEN UNCHANGED muts
              ELSE /\ Len(muts) < MaxSubmits
                   /\ muts' =
                        IF form.mode = "edit"
                        THEN mutate(muts, "update", form.id,
                                 [title |-> trim(form.title),
                                  url |-> trim(form.url),
                                  favorite |-> form.favorite])
                        ELSE mutate(muts, "create", NoId,
                                 [title |-> trim(form.title),
                                  url |-> trim(form.url),
                                  favorite |-> form.favorite,
                                  userId |-> ""])
    /\ UNCHANGED <<store, cache, stale, now, nextDoc, search, auth, hooks, page>>

FormInit ==
    /\ store = {f1, f2}
    /\ cache = [k \in QueryKeys |->
                   IF k = infinite(NoFilter)
                       THEN Data(<<Page(<<f2, f1>>, FALSE)>>)
                   ELSE IF k = infinite(FavoritesOnly)
                       THEN Data(<<Page(<<f1>>, FALSE)>>)
                   ELSE IF k = count(NoFilter) THEN Data(2)
                   ELSE IF k = count(FavoritesOnly) THEN Data(1)
                   ELSE Undefined(k)]
    /\ stale = [k \in QueryKeys |-> FALSE]
    /\ muts = <<>>
    /\ now = 3
    /\ nextDoc = 3
    /\ search = NoCall
    /\ auth = user
    /\ hooks = Unfetched
    /\ form = NoForm
    /\ nav = NoNav
    /\ account = NoAccount

FormNext ==
    \/ OpenCreate
    \/ \E b \in CachedBookmarks(cache) : OpenEdit(b)
    \/ CloseModal
    \/ \E v \in Titles : HandleInputChange("title", v)
    \/ \E v \in Urls : HandleInputChange("url", v)
    \/ \E v \in Titles : ExtractTitleFromUrl(v)
    \/ HandleSubmit
    \/ \E i \in 1..MaxMutations :
        \/ AddOnMutate(i)
        \/ AddBookmarkAddDoc(i)
        \/ AddOnSuccess(i)
        \/ AddOnError(i)
        \/ UpdateOnMutate(i)
        \/ UpdateBookmarkGetDoc(i)
        \/ UpdateBookmarkUpdateDoc(i)
        \/ UpdateOnSuccess(i)
        \/ UpdateOnError(i)
        \/ TransportFailure(i)

FormSpec == FormInit /\ [][FormNext]_vars

(***************************************************************************)
(* The bookmark list (Bookmarks.tsx) over useInfiniteBookmarks.  A fetch   *)
(* of the query calls queryFn, whose read stays on the wire until          *)
(* Firestore answers: queryFn does not take the abort signal, so a fetch   *)
(* that the query client cancels is no longer awaited but its read is      *)
(* still under way.                                                        *)
(***************************************************************************)
\* the reads on the wire at once
MaxReads == 3

isFetchingNextPage(q) == q.fetchStatus = "fetching" /\ q.direction = "forward"

\* getNextPageParam of the last page; NoDoc for undefined
getNextPageParam(pages) ==
    IF pages # <<>> /\ pages[Len(pages)].hasMore
    THEN pages[Len(pages)].lastDoc
    ELSE NoDoc

hasNextPage(q) == getNextPageParam(q.pages) # NoDoc

\* Query.cancel: the running fetch is given up, its read is not aborted
cancel(wire) == [x \in DOMAIN wire |-> [wire[x] EXCEPT !.awaited = FALSE]]

\* Query.fetch with cancelRefetch: a running fetch is cancelled, queryFn is
\* called
fetch(h, direction) ==
    [h EXCEPT !.list.fetchStatus = "fetching",
              !.list.direction = direction,
              !.wire = Append(cancel(@),
                          [direction |-> direction,
                           pageParam |-> IF direction = "forward"
                                         THEN getNextPageParam(h.list.pages)
                                         ELSE NoDoc,
                           awaited |-> TRUE])]

\* if (inView && hasNextPage && !isFetchingNextPage)
shouldFetchNextPage(h) ==
    h.inView /\ hasNextPage(h.list) /\ ~isFetchingNextPage(h.list)

\* a refetch of an infinite query: n pages, each from the cursor of the
\* one before, until a page has no next page
RECURSIVE refetchPages(_, _, _, _)
refetchPages(st, u, pages, n) ==
    IF n = 0 \/ (pages # <<>> /\ getNextPageParam(pages) = NoDoc) THEN pages
    ELSE refetchPages(st, u,
             Append(pages,
                    searchBookmarks(st, u, NoFields, HookPageSize,
                                    getNextPageParam(pages)).result),
             n - 1)

\* useInView: the load-more element enters or leaves the viewport
SetInView(v) ==
    /\ hooks.inView # v
    /\ hooks' = [hooks EXCEPT !.inView = v]
    /\ UNCHANGED <<mutationVars, search, auth, form, page>>

\* useEffect: auto fetch next page when the element is in view
AutoFetchNextPage ==
    /\ hooks.list.status = "success"
    /\ shouldFetchNextPage(hooks)
    /\ Len(hooks.wire) < MaxReads
    /\ hooks' = fetch(hooks, "forward")
    /\ UNCHANGED <<mutationVars, search, auth, form, page>>

\* the "Load More Bookmarks" button, rendered when hasNextPage and not
\* isFetchingNextPage
LoadMoreClick ==
    /\ hooks.list.status = "success"
    /\ hasNextPage(hooks.list)
    /\ ~isFetchingNextPage(hooks.list)
    /\ Len(hooks.wire) < MaxReads
    /\ hooks' = fetch(hooks, "forward")
    /\ UNCHANGED <<mutationVars, search, auth, form, page>>

\* onMutate of a mutation: await queryClient.cancelQueries(...); a running
\* fetch is cancelled and the query goes back to idle
CancelQueries ==
    /\ hooks.list.fetchStatus = "fetching"
    /\ hooks' = [hooks EXCEPT !.list.fetchStatus = "idle",
                              !.list.direction = "none",
                              !.wire = cancel(@)]
    /\ UNCHANGED <<mutationVars, search, auth, form, page>>

\* onSettled of a mutation: queryClient.invalidateQueries(...); the mounted
\* list is refetched, a running fetch is cancelled first
InvalidateQueries ==
    /\ hooks.list.status = "success"
    /\ Len(hooks.wire) < MaxReads
    /\ hooks' = fetch(hooks, "none")
    /\ UNCHANGED <<mutationVars, search, auth, form, page>>

\* Firestore answers a read: the fetch that awaits it settles, the answer
\* to a cancelled fetch is dropped
ReadReturns(x) ==
    /\ x \in DOMAIN hooks.wire
    /\ LET read == hooks.wire[x]
           rest == [y \in 1..(Len(hooks.wire) - 1) |->
                       IF y < x THEN hooks.wire[y] ELSE hooks.wire[y + 1]]
           call == searchBookmarks(store, auth, NoFields, HookPageSize,
                                   read.pageParam)
       IN  IF ~read.awaited
           THEN /\ hooks' = [hooks EXCEPT !.wire = rest]
                /\ UNCHANGED search
           ELSE /\ hooks' =
                     [hooks EXCEPT
                         !.wire = rest,
                         !.list.fetchStatus = "idle",
                         !.list.direction = "none",
                         !.list.pages =
                             IF read.direction = "forward"
                             THEN Append(@, call.result)
                             ELSE refetchPages(store, auth, <<>>, Len(@))]
                /\ search' = call
    /\ UNCHANGED <<mutationVars, auth, form, page>>

PagerInit ==
    /\ store \in SUBSET SearchDocs
    /\ cache = InitialCache
    /\ stale = [k \in QueryKeys |-> FALSE]
    /\ muts = <<>>
    /\ now = 6
    /\ nextDoc = 6
    /\ search = NoCall
    /\ auth = user
    /\ hooks = Unfetched
    /\ form = NoForm
    /\ nav = NoNav
    /\ account = NoAccount

PagerNext ==
    \/ ListFetch
    \/ \E v \in BOOLEAN : SetInView(v)
    \/ AutoFetchNextPage
    \/ LoadMoreClick
    \/ CancelQueries
    \/ InvalidateQueries
    \/ \E x \in 1..MaxReads : ReadReturns(x)

PagerSpec == PagerInit /\ [][PagerNext]_vars

(***************************************************************************)
(* The search box and the address bar (SearchBookmark.tsx, Bookmarks.tsx). *)
(* nav.url is the query string of the address bar without its "?", as      *)
(* URLSearchParams writes and reads it; query and favoriteOnly are the     *)
(* state of the search box, searchParams the state of the list.  phase is  *)
(* "typing" after an input, "synced" once the debounced search has run,    *)
(* "restored" after the page was loaded from the address bar.              *)
(***************************************************************************)
qKey == <<"q">>

favoritesKey == <<"f", "a", "v", "o", "r", "i", "t", "e", "s">>

true == <<"t", "r", "u", "e">>

\* variant: only the space is encoded
urlencodeByteSpaceOnly(c) == IF c = " " THEN <<"+">> ELSE <<c>>

\* the application/x-www-form-urlencoded byte serializer, on the characters
\* of the texts below
urlencodeByte(c) ==
    CASE c = " " -> <<"+">>
      [] c = "+" -> <<"%", "2", "B">>
      [] c = "&" -> <<"%", "2", "6">>
      [] c = "=" -> <<"%", "3", "D">>
      [] c = "%" -> <<"%", "2", "5">>
      [] OTHER -> <<c>>

RECURSIVE urlencode(_)
urlencode(s) ==
    IF s = <<>> THEN <<>> ELSE urlencodeByte(Head(s)) \o urlencode(Tail(s))

\* the character written as "%" and two hexadecimal digits
percentDecoded(hex) ==
    CASE hex = <<"2", "B">> -> "+"
      [] hex = <<"2", "6">> -> "&"
      [] hex = <<"3", "D">> -> "="
      [] hex = <<"2", "5">> -> "%"
      [] hex = <<"2", "0">> -> " "

PercentEncoded == {<<"2", "B">>, <<"2", "6">>, <<"3", "D">>, <<"2", "5">>,
                   <<"2", "0">>}

\* the urlencoded parser on one name or value: "+" is a space, "%xx" a byte
RECURSIVE urldecode(_)
urldecode(s) ==
    IF s = <<>> THEN <<>>
    ELSE IF Head(s) = "+" THEN <<" ">> \o urldecode(Tail(s))
    ELSE IF Head(s) = "%" /\ Len(s) >= 3 /\ SubSeq(s, 2, 3) \in PercentEncoded
         THEN <<percentDecoded(SubSeq(s, 2, 3))>>
                  \o urldecode(SubSeq(s, 4, Len(s)))
    ELSE <<Head(s)>> \o urldecode(Tail(s))

\* String.prototype.split
RECURSIVE split(_, _)
split(s, separator) ==
    IF indexOf(s, separator) = 0 THEN <<s>>
    ELSE <<SubSeq(s, 1, indexOf(s, separator) - 1)>>
             \o split(SubSeq(s, indexOf(s, separator) + 1, Len(s)), separator)

\* new URLSearchParams(string): the list of name-value pairs
URLSearchParams(string) ==
    LET sequences == SelectSeq(split(string, "&"), LAMBDA bytes : bytes # <<>>)
    IN  [x \in DOMAIN sequences |->
            LET bytes == sequences[x]
                eq == indexOf(bytes, "=")
            IN  IF eq = 0
                THEN [name |-> urldecode(bytes), value |-> <<>>]
                ELSE [name |-> urldecode(SubSeq(bytes, 1, eq - 1)),
                      value |-> urldecode(SubSeq(bytes, eq + 1, Len(bytes)))]]

\* URLSearchParams.has
has(params, name) == \E x \in DOMAIN params : params[x].name = name

\* URLSearchParams.get where has: the value of the first pair with the name
get(params, name) ==
    params[CHOOSE x \in DOMAIN params :
               /\ params[x].name = name
               /\ \A y \in 1..(x - 1) : params[y].name # name].value

\* URLSearchParams.delete
delete(params, name) == SelectSeq(params, LAMBDA pair : pair.name # name)

\* URLSearchParams.set: the first pair with the name gets the value and the
\* others go, or a pair is appended
set(params, name, value) ==
    IF has(params, name)
    THEN LET first == CHOOSE x \in DOMAIN params :
                          /\ params[x].name = name
                          /\ \A y \in 1..(x - 1) : params[y].name # name
         IN  SubSeq(params, 1, first - 1)
                 \o <<[name |-> name, value |-> value]>>
                 \o delete(SubSeq(params, first + 1, Len(params)), name)
    ELSE Append(params, [name |-> name, value |-> value])

\* URLSearchParams.toString
RECURSIVE toString(_)
toString(params) ==
    IF params = <<>> THEN <<>>
    ELSE urlencode(Head(params).name) \o <<"=">> \o urlencode(Head(params).value)
             \o (IF Tail(params) = <<>> THEN <<>>
                 ELSE <<"&">> \o toString(Tail(params)))

\* updateUrlParams: the query string handed to router.replace
updateUrlParams(url, newQuery, newFavoriteOnly) ==
    LET params == URLSearchParams(url)
        p1 == IF trim(newQuery) # <<>>
              THEN set(params, qKey, trim(newQuery))
              ELSE delete(params, qKey)
        p2 == IF newFavoriteOnly
              THEN set(p1, favoritesKey, true)
              ELSE delete(p1, favoritesKey)
    IN  toString(p2)

\* the BookmarkSearchParams built by debouncedSearch
debouncedSearchParams(q, fav) ==
    Spread(IF trim(q) # <<>> THEN [query |-> trim(q)] ELSE NoFields,
           IF fav THEN [favorite |-> TRUE] ELSE NoFields)

\* searchParams.get("q") || ""
urlQuery(url) ==
    IF has(URLSearchParams(url), qKey)
    THEN get(URLSearchParams(url), qKey)
    ELSE <<>>

\* searchParams.get("favorites") === "true"
urlFavorites(url) ==
    /\ has(URLSearchParams(url), favoritesKey)
    /\ get(URLSearchParams(url), favoritesKey) = true

\* the BookmarkSearchParams built from the address bar: the initializer of
\* BookmarkList and the mount effect of SearchBookmark build the same
initialParams(url) ==
    Spread(IF urlQuery(url) # <<>> THEN [query |-> urlQuery(url)] ELSE NoFields,
           IF urlFavorites(url) THEN [favorite |-> TRUE] ELSE NoFields)

\* what the user types into the search box
Typed == {<<>>, <<" ">>, <<"a">>, <<" ", "a", " ">>, <<"a", " ", "b">>,
          <<"a", "+", "b">>, <<"a", "&", "q", "=", "b">>, <<"%", "2", "B">>}

\* the page is loaded: both components read the address bar
Load ==
    /\ nav' = [url |-> nav.url, loaded |-> TRUE, phase |-> "restored",
               query |-> urlQuery(nav.url),
               favoriteOnly |-> urlFavorites(nav.url),
               searchParams |-> initialParams(nav.url)]
    /\ UNCHANGED <<mutationVars, search, auth, hooks, form, account>>

\* onChange of the search input
SetQuery(q) ==
    /\ nav.loaded
    /\ nav.query # q
    /\ nav' = [nav EXCEPT !.query = q, !.phase = "typing"]
    /\ UNCHANGED <<mutationVars, search, auth, hooks, form, account>>

\* the favourites switch
SetFavoriteOnly(fav) ==
    /\ nav.loaded
    /\ nav.favoriteOnly # fav
    /\ nav' = [nav EXCEPT !.favoriteOnly = fav, !.phase = "typing"]
    /\ UNCHANGED <<mutationVars, search, auth, hooks, form, account>>

\* debouncedSearch, 500 ms after the last change: onSearch(params), then
\* updateUrlParams(q, fav)
DebouncedSearch ==
    /\ nav.loaded
    /\ nav.phase # "synced"
    /\ nav' = [nav EXCEPT
                  !.searchParams =
                      debouncedSearchParams(nav.query, nav.favoriteOnly),
                  !.url = updateUrlParams(nav.url, nav.query, nav.favoriteOnly),
                  !.phase = "synced"]
    /\ UNCHANGED <<mutationVars, search, auth, hooks, form, account>>

\* handleClear: the box is emptied and the query string dropped
HandleClear ==
    /\ nav.loaded
    /\ nav.query # <<>> \/ nav.favoriteOnly
    /\ nav' = [nav EXCEPT !.query = <<>>, !.favoriteOnly = FALSE,
                          !.url = <<>>, !.phase = "typing"]
    /\ UNCHANGED <<mutationVars, search, auth, hooks, form, account>>

NavInit ==
    /\ store = InitialStore
    /\ cache = InitialCache
    /\ stale = [k \in QueryKeys |-> FALSE]
    /\ muts = <<>>
    /\ now = 6
    /\ nextDoc = 6
    /\ search = NoCall
    /\ auth = user
    /\ hooks = Unfetched
    /\ form = NoForm
    /\ nav = NoNav
    /\ account = NoAccount

NavNext ==
    \/ Load
    \/ \E q \in Typed : SetQuery(q)
    \/ \E fav \in BOOLEAN : SetFavoriteOnly(fav)
    \/ DebouncedSearch
    \/ HandleClear

NavSpec == NavInit /\ [][NavNext]_vars

(***************************************************************************)
(* Updates with any fields of Partial<IBookmark>.  updateBookmark of the   *)
(* hook hands its updates to FirestoreService.updateBookmark as they are.  *)
(***************************************************************************)
PartialFields ==
    {[title |-> "t"],
     [favorite |-> TRUE, updatedAt |-> 0],
     [userId |-> "u2"],
     [title |-> "t", createdAt |-> 9]}

PartialInit ==
    /\ store = InitialStore
    /\ cache = InitialCache
    /\ stale = [k \in QueryKeys |-> FALSE]
    /\ muts = <<>>
    /\ now = 6
    /\ nextDoc = 6
    /\ search = NoCall
    /\ auth = user
    /\ hooks = Unfetched
    /\ form = NoForm
    /\ nav = NoNav
    /\ account = NoAccount

PartialNext ==
    \/ \E id \in TargetIds, u \in PartialFields : UpdateMutate(id, u)
    \/ \E i \in 1..MaxMutations :
          \/ UpdateOnMutate(i)
          \/ UpdateBookmarkGetDoc(i)
          \/ UpdateBookmarkUpdateDoc(i)
          \/ UpdateOnSuccess(i)
          \/ UpdateOnError(i)
          \/ TransportFailure(i)

PartialSpec == PartialInit /\ [][PartialNext]_vars

(***************************************************************************)
(* The tag editor (TagSelector; handleAddTag / handleRemoveTag of          *)
(* AddBookmarkButton and BookmarkEdit do the same).  form.value is the tag *)
(* list handed in by the form, which copies it from the edited bookmark;   *)
(* form.inputValue is the text typed.  A tag is a sequence of characters.  *)
(***************************************************************************)
PREDEFINED_TAGS == << <<"a", "b">>, <<"n">> >>

\* the tag lists of the bookmarks that can be edited: the adapter stores
\* tags as given, in any letter case
StoredTags ==
    {<<>>, << <<"a", "b">> >>, << <<"A", "b">> >>, << <<"b">>, <<"A", "b">> >>,
     << <<"n">>, <<"b">> >>}

TypedTags == {<<>>, <<" ">>, <<"a", "b">>, <<"A", "b">>, <<" ", "B", " ">>,
              <<"N">>, <<"a">>}

\* Array.prototype.includes
arrayIncludes(array, element) == \E x \in DOMAIN array : array[x] = element

\* addTag: the new value
addTag(value, tag) ==
    LET t == toLowerCase(trim(tag))
    IN  IF t # <<>> /\ ~arrayIncludes(value, t) THEN Append(value, t) ELSE value

\* removeTag: the new value
removeTag(value, tag) == SelectSeq(value, LAMBDA v : v # tag)

\* the Input's onChange
SetInputValue(v) ==
    /\ form.inputValue # v
    /\ form' = [form EXCEPT !.inputValue = v]
    /\ UNCHANGED <<mutationVars, search, auth, hooks, page>>

\* handleKeyDown, Enter or ","; also the "Add ..." row of the empty list
AddTyped ==
    /\ form.inputValue # <<>>
    /\ form' = [form EXCEPT !.value = addTag(@, form.inputValue),
                            !.inputValue = <<>>]
    /\ UNCHANGED <<mutationVars, search, auth, hooks, page>>

\* onSelect of a suggestion: a predefined tag that is not in the value
SelectTag(x) ==
    /\ x \in DOMAIN PREDEFINED_TAGS
    /\ ~arrayIncludes(form.value, PREDEFINED_TAGS[x])
    /\ includes(toLowerCase(PREDEFINED_TAGS[x]), toLowerCase(form.inputValue))
    /\ form' = [form EXCEPT !.value = addTag(@, PREDEFINED_TAGS[x]),
                            !.inputValue = <<>>]
    /\ UNCHANGED <<mutationVars, search, auth, hooks, page>>

\* the X of a badge
RemoveTag(x) ==
    /\ x \in DOMAIN form.value
    /\ form' = [form EXCEPT !.value = removeTag(@, form.value[x])]
    /\ UNCHANGED <<mutationVars, search, auth, hooks, page>>

\* handleKeyDown, Backspace in the empty input: the last tag goes
BackspaceKey ==
    /\ form.inputValue = <<>>
    /\ Len(form.value) > 0
    /\ form' = [form EXCEPT !.value = removeTag(@, form.value[Len(form.value)])]
    /\ UNCHANGED <<mutationVars, search, auth, hooks, page>>

TagInit ==
    /\ store = InitialStore
    /\ cache = InitialCache
    /\ stale = [k \in QueryKeys |-> FALSE]
    /\ muts = <<>>
    /\ now = 6
    /\ nextDoc = 6
    /\ search = NoCall
    /\ auth = user
    /\ hooks = Unfetched
    /\ \E tags \in StoredTags :
           form = [mode |-> "tags", value |-> tags, inputValue |-> <<>>]
    /\ nav = NoNav
    /\ account = NoAccount

TagNext ==
    \/ \E v \in TypedTags : SetInputValue(v)
    \/ AddTyped
    \/ \E x \in 1..Len(PREDEFINED_TAGS) : SelectTag(x)
    \/ \E x \in 1..Len(form.value) : RemoveTag(x)
    \/ BackspaceKey

TagSpec == TagInit /\ [][TagNext]_vars

(***************************************************************************)
(* The statistics of the profile page (hooks/useBookmarkStats.ts).  The    *)
(* hook reads every bookmark of the user, newest first, and aggregates.    *)
(***************************************************************************)
\* oneWeekAgo.getDate() - 7, in the unit of the clock
DaysOfWeek == 7

StatsTags(n) ==
    CASE n = 1 -> << <<"a", "b">> >>
      [] n = 2 -> << <<"A", "b">> >>
      [] n = 3 -> << <<"a", "b">>, <<"b">> >>
      [] n = 5 -> << <<"B">>, <<"n">>, <<"N">> >>
      [] n = 6 -> << <<"z">> >>
      [] OTHER -> <<>>

StatsDoc(n) ==
    [id |-> DocId(n), title |-> <<"b">>, url |-> <<"u">>, tags |-> StatsTags(n),
     favorite |-> (n % 2 = 1), createdAt |-> n, updatedAt |-> n,
     userId |-> IF n = 6 THEN "u2" ELSE user]

StatsDocs == {StatsDoc(n) : n \in 1..6}

\* Array.prototype.flatMap over the tags
RECURSIVE flatMapTags(_)
flatMapTags(bookmarks) ==
    IF bookmarks = <<>> THEN <<>>
    ELSE Head(bookmarks).tags \o flatMapTags(Tail(bookmarks))

\* Math.max(...lengths, 0)
maxTags(bookmarks) ==
    IF bookmarks = <<>> THEN 0
    ELSE CHOOSE m \in {Len(bookmarks[x].tags) : x \in DOMAIN bookmarks} :
             \A x \in DOMAIN bookmarks : Len(bookmarks[x].tags) <= m

\* calculateBookmarkStats; averageTagsPerBookmark in tenths
calculateBookmarkStats(bookmarks, today) ==
    LET totalBookmarks == Len(bookmarks)
        allTags == flatMapTags(bookmarks)
        uniqueTags == {allTags[x] : x \in DOMAIN allTags}
        oneWeekAgo == today - DaysOfWeek
    IN  IF totalBookmarks = 0
        THEN [totalBookmarks |-> 0, favoriteBookmarksCount |-> 0,
              uniqueTagsCount |-> 0, recentBookmarksCount |-> 0,
              averageTagsPerBookmark |-> 0, maxTagsOnSingleBookmark |-> 0]
        ELSE [totalBookmarks |-> totalBookmarks,
              favoriteBookmarksCount |->
                  Len(SelectSeq(bookmarks, LAMBDA b : b.favorite)),
              uniqueTagsCount |-> Cardinality(uniqueTags),
              recentBookmarksCount |->
                  Len(SelectSeq(bookmarks, LAMBDA b : b.createdAt >= oneWeekAgo)),
              averageTagsPerBookmark |->
                  (20 * Len(allTags) + totalBookmarks) \div (2 * totalBookmarks),
              maxTagsOnSingleBookmark |-> maxTags(bookmarks),
              mostRecentBookmark |-> bookmarks[1]]

\* queryFn of useBookmarkStats
FetchStats ==
    /\ auth # NoUser
    /\ LET bookmarks == orderBy({d \in store : d.userId = auth})
       IN  search' = [op |-> "useBookmarkStats", userId |-> auth,
                      docs |-> bookmarks,
                      result |-> calculateBookmarkStats(bookmarks, now)]
    /\ UNCHANGED <<mutationVars, auth, hooks, form, page>>

StatsInit ==
    /\ store \in SUBSET StatsDocs
    /\ cache = InitialCache
    /\ stale = [k \in QueryKeys |-> FALSE]
    /\ muts = <<>>
    /\ now \in {7, 11}
    /\ nextDoc = 7
    /\ search = NoCall
    /\ auth = user
    /\ hooks = Unfetched
    /\ form = NoForm
    /\ nav = NoNav
    /\ account = NoAccount

StatsNext == FetchStats

StatsSpec == StatsInit /\ [][StatsNext]_vars

(***************************************************************************)
(* Account deletion (AuthContext.deleteAccount, started from the settings  *)
(* page).  account.step: "idle"; "listing" (deleteUserBookmarks awaits     *)
(* getDocs); "committing" (it awaits Promise.all of the batch commits);    *)
(* "deleteUser" (deleteAccount awaits deleteUser); "done"; "failed" (the   *)
(* error was thrown to the page).  A batch that is still pending when      *)
(* Promise.all rejects is committed all the same.  The mutations of the    *)
(* query client go on while the settings page is shown; a step of the      *)
(* deletion is an event of its own and waits for a running handler.        *)
(***************************************************************************)
\* const batchSize = 500, scaled to the stored documents
batchSize == 2

\* the batches filled by querySnapshot.docs.forEach: batchSize deletes each,
\* and the rest in the last
RECURSIVE writeBatches(_)
writeBatches(docs) ==
    IF docs = <<>> THEN <<>>
    ELSE IF Len(docs) <= batchSize
         THEN <<[docs |-> docs, state |-> "pending"]>>
    ELSE <<[docs |-> SubSeq(docs, 1, batchSize), state |-> "pending"]>>
             \o writeBatches(SubSeq(docs, batchSize + 1, Len(docs)))

\* the documents of a set in some order
RECURSIVE docsOf(_)
docsOf(ids) ==
    IF ids = {} THEN <<>>
    ELSE LET id == CHOOSE x \in ids : TRUE IN <<id>> \o docsOf(ids \ {id})

\* handleDeleteAccount / handleReauthSuccess: deleteAccount() is called and
\* deleteUserBookmarks issues its getDocs
HandleDeleteAccount ==
    /\ ~Running(muts)
    /\ auth # NoUser
    /\ account.step \in {"idle", "failed"}
    /\ account' = [step |-> "listing", userId |-> auth, batches |-> <<>>,
                   error |-> NoError]
    /\ UNCHANGED <<mutationVars, search, auth, hooks, form, nav>>

\* getDocs of the user's bookmarks returns: nothing to delete, or the
\* batches are filled and committed
GetDocsReturns ==
    /\ ~Running(muts)
    /\ account.step = "listing"
    /\ LET ids == {d.id : d \in {x \in store : x.userId = account.userId}}
       IN  account' = [account EXCEPT
                          !.step = IF ids = {} THEN "deleteUser"
                                   ELSE "committing",
                          !.batches = writeBatches(docsOf(ids))]
    /\ UNCHANGED <<mutationVars, search, auth, hooks, form, nav>>

\* getDocs rejects: Error("Failed to delete user data: ...")
GetDocsFails ==
    /\ ~Running(muts)
    /\ account.step = "listing"
    /\ account' = [account EXCEPT !.step = "failed",
                                  !.error = "Failed to delete user data"]
    /\ UNCHANGED <<mutationVars, search, auth, hooks, form, nav>>

\* one batch.commit() succeeds; when it was the last one awaited,
\* deleteUserBookmarks returns and deleteUser is called
BatchCommits(x) ==
    /\ ~Running(muts)
    /\ x \in DOMAIN account.batches
    /\ account.batches[x].state = "pending"
    /\ store' = {d \in store :
                    \A y \in DOMAIN account.batches[x].docs :
                        d.id # account.batches[x].docs[y]}
    /\ LET batches == [account.batches EXCEPT ![x].state = "committed"]
       IN  account' = [account EXCEPT
                          !.batches = batches,
                          !.step =
                              IF /\ account.step = "committing"
                                 /\ \A y \in DOMAIN batches :
                                        batches[y].state = "committed"
                              THEN "deleteUser" ELSE @]
    /\ UNCHANGED <<cache, stale, muts, now, nextDoc, search, auth, hooks, form,
                   nav>>

\* one batch.commit() rejects: Promise.all rejects at once
BatchFails(x) ==
    /\ ~Running(muts)
    /\ x \in DOMAIN account.batches
    /\ account.batches[x].state = "pending"
    /\ account' = [account EXCEPT
                      !.batches[x].state = "failed",
                      !.step = IF @ = "committing" THEN "failed" ELSE @,
                      !.error = IF account.step = "committing"
                                THEN "Failed to delete user data" ELSE @]
    /\ UNCHANGED <<mutationVars, search, auth, hooks, form, nav>>

\* deleteUser(user) succeeds: the identity is gone, onAuthStateChanged
\* reports null
DeleteUserSucceeds ==
    /\ ~Running(muts)
    /\ account.step = "deleteUser"
    /\ account' = [account EXCEPT !.step = "done"]
    /\ auth' = NoUser
    /\ UNCHANGED <<mutationVars, search, hooks, form, nav>>

\* deleteUser(user) rejects (auth/requires-recent-login, network)
DeleteUserFails ==
    /\ ~Running(muts)
    /\ account.step = "deleteUser"
    /\ account' = [account EXCEPT !.step = "failed",
                                  !.error = "auth/requires-recent-login"]
    /\ UNCHANGED <<mutationVars, search, auth, hooks, form, nav>>

AccountInit ==
    /\ store = InitialStore
    /\ cache = InitialCache
    /\ stale = [k \in QueryKeys |-> FALSE]
    /\ muts = <<>>
    /\ now = 6
    /\ nextDoc = 6
    /\ search = NoCall
    /\ auth = user
    /\ hooks = Unfetched
    /\ form = NoForm
    /\ nav = NoNav
    /\ account = NoAccount

AccountNext ==
    \/ HandleDeleteAccount
    \/ GetDocsReturns
    \/ GetDocsFails
    \/ \E x \in 1..Cardinality(InitialStore) : BatchCommits(x)
    \/ \E x \in 1..Cardinality(InitialStore) : BatchFails(x)
    \/ DeleteUserSucceeds
    \/ DeleteUserFails
    \/ \E b \in NewBookmarks : AddMutate(b)
    \/ \E i \in 1..MaxMutations :
          \/ AddOnMutate(i)
          \/ AddBookmarkAddDoc(i)
          \/ AddOnSuccess(i)
          \/ AddOnError(i)
          \/ MutationFnThrows(i)
          \/ TransportFailure(i)

AccountSpec == AccountInit /\ [][AccountNext]_vars

(***************************************************************************)
(* hooks/useBookmarks.ts: useInfiniteBookmarks over a store that does not  *)
(* change.  The pages of one list are fetched one after the other, each    *)
(* with the cursor getNextPageParam takes from the page before it.         *)
(***************************************************************************)
\* queryFn with initialPageParam: the first page of the list
FetchInitialPage(searchParams, pageSize) ==
    /\ search' = [op |-> "useInfiniteBookmarks", searchParams |-> searchParams,
                  pageSize |-> pageSize,
                  pages |-> <<searchBookmarks(store, user, searchParams,
                                              pageSize, NoDoc).result>>]
    /\ UNCHANGED <<mutationVars, auth, hooks, form, page>>

\* fetchNextPage: getNextPageParam of the last page is its cursor while
\* hasMore, and queryFn appends the page fetched with it
FetchFollowingPage ==
    /\ search.op = "useInfiniteBookmarks"
    /\ search.pages[Len(search.pages)].hasMore
    /\ search' = [search EXCEPT
                     !.pages = Append(@,
                         searchBookmarks(store, user, search.searchParams,
                                         search.pageSize,
                                         search.pages[Len(search.pages)].lastDoc
                                        ).result)]
    /\ UNCHANGED <<mutationVars, auth, hooks, form, page>>

PagingInit == SearchInit

PagingNext ==
    \/ \E sp \in SearchParams, n \in PageSizes : FetchInitialPage(sp, n)
    \/ FetchFollowingPage

PagingSpec == PagingInit /\ [][PagingNext]_vars

(***************************************************************************)
(* The query cache across identities.  The QueryClient of the session is   *)
(* never cleared: the queries of a user who signed out stay in the cache   *)
(* (gcTime) when the next user signs in.  The mutations are those of the   *)
(* user u1; another user was signed in before.                             *)
(***************************************************************************)
otherUser == "u2"

OtherFilter == Filters(otherUser, "undefined", "undefined")

OtherKeys == {infinite(OtherFilter), count(OtherFilter)}

\* the searchParams of the hook whose key carries these filters
searchParamsOf(filters) ==
    Spread(IF filters.query = "undefined" THEN NoFields
           ELSE [query |-> <<filters.query>>],
           IF filters.favorite = "undefined" THEN NoFields
           ELSE [favorite |-> (filters.favorite = "true")])

\* a fetch of a list query: the pages held are fetched again one after the
\* other (one page when none is held), each from the cursor of the one
\* before, as long as there is a cursor.  Without a text query the cursor
\* (the last document read) is the last record of the page
RECURSIVE fetchPages(_, _, _, _, _)
fetchPages(st, u, searchParams, pages, n) ==
    IF n = 0 \/ (pages # <<>> /\ ~pages[Len(pages)].hasMore) THEN pages
    ELSE LET lastDoc == IF pages = <<>> THEN NoDoc
                        ELSE LET bs == pages[Len(pages)].bookmarks
                             IN  bs[Len(bs)]
             r == searchBookmarks(st, u, searchParams, HookPageSize,
                                  lastDoc).result
         IN  fetchPages(st, u, searchParams,
                        Append(pages, Page(r.bookmarks, r.hasMore)), n - 1)

\* the data a fetch of query k writes into the cache
queryFn(st, c, k) ==
    IF k[2] = "count"
    THEN Data(getBookmarksCount(st, k[3].userId, searchParamsOf(k[3])).result)
    ELSE Data(fetchPages(st, k[3].userId, searchParamsOf(k[3]), <<>>,
                         IF c[k].has /\ Len(c[k].data) > 1
                         THEN Len(c[k].data) ELSE 1))

\* the observers of the signed-in user fetch what has no data or is
\* invalidated; the lists and counts without a text query are on screen
Fetches(k) ==
    /\ k[3].userId = auth
    /\ k[3].query = "undefined"
    /\ InFlight(muts) = {}
    /\ stale[k] \/ ~cache[k].has
    /\ cache' = [cache EXCEPT ![k] = queryFn(store, cache, k)]
    /\ stale' = [stale EXCEPT ![k] = FALSE]
    /\ UNCHANGED <<store, muts, now, nextDoc, view>>

\* signOut / signIn: onAuthStateChanged sets the user, the cache stays
SignOut ==
    /\ auth # NoUser
    /\ InFlight(muts) = {}
    /\ auth' = NoUser
    /\ UNCHANGED <<mutationVars, search, hooks, form, page>>

SignIn(u) ==
    /\ auth = NoUser
    /\ auth' = u
    /\ UNCHANGED <<mutationVars, search, hooks, form, page>>

\* the signed-in user submits the form: addBookmark of useBookmarkMutations
SubmitAs(u, newBookmark) ==
    /\ auth = u
    /\ AddMutate(newBookmark)

OwnerInit ==
    /\ store = InitialStore
    /\ cache = [k \in QueryKeys \cup OtherKeys |->
                   IF k = infinite(OtherFilter)
                       THEN Data(<<Page(<<r5>>, FALSE)>>)
                   ELSE IF k = count(OtherFilter) THEN Data(1)
                   ELSE Undefined(k)]
    /\ stale = [k \in QueryKeys \cup OtherKeys |-> FALSE]
    /\ muts = <<>>
    /\ now = 6
    /\ nextDoc = 6
    /\ search = NoCall
    /\ auth = otherUser
    /\ hooks = Unfetched
    /\ form = NoForm
    /\ nav = NoNav
    /\ account = NoAccount

OwnerNext ==
    \/ SignOut
    \/ \E u \in {user, otherUser} : SignIn(u)
    \/ \E k \in QueryKeys \cup OtherKeys : Fetches(k)
    \/ \E b \in NewBookmarks : SubmitAs(user, b)
    \/ \E i \in 1..MaxMutations :
          \/ AddOnMutate(i)
          \/ AddBookmarkAddDoc(i)
          \/ AddOnSuccess(i)
          \/ AddOnError(i)
          \/ TransportFailure(i)

OwnerSpec == OwnerInit /\ [][OwnerNext]_vars

(***************************************************************************)
(* addBookmarkMutation when a response is lost.  addBookmark sends no      *)
(* request id: every call of addDoc writes a document with a new auto id.  *)
(* The create requests of a run carry different titles.                    *)
(***************************************************************************)
RetryBookmarks ==
    {[title |-> t, favorite |-> FALSE, userId |-> ""] : t \in {"n", "m"}}

\* the form is submitted with a title not submitted before
SubmitOnce(newBookmark) ==
    /\ \A j \in DOMAIN muts : muts[j].variables # newBookmark
    /\ AddMutate(newBookmark)

\* the addDoc round trip: the store applies the write, the response does
\* not arrive and the awaited addDoc rejects; the adapter throws
\* "Failed to save bookmark" and the Retryer counts a failure
AddDocResponseLost(i) ==
    /\ Pending(i, "create", "write")
    /\ auth # NoUser
    /\ store' = addDoc(store, DocId(nextDoc), muts[i].variables, user, now)
    /\ muts' = [muts EXCEPT ![i] =
                   failed(thrown([@ EXCEPT !.log = @ \o <<"lost">>],
                                 "unavailable"))]
    /\ nextDoc' = nextDoc + 1
    /\ UNCHANGED <<cache, stale, now, view>>

RetryInit == Init

RetryNext ==
    \/ \E b \in RetryBookmarks : SubmitOnce(b)
    \/ \E i \in 1..MaxMutations :
          \/ AddOnMutate(i)
          \/ AddBookmarkAddDoc(i)
          \/ AddDocResponseLost(i)
          \/ AddOnSuccess(i)
          \/ AddOnError(i)
          \/ TransportFailure(i)

RetrySpec == RetryInit /\ [][RetryNext]_vars

(***************************************************************************)
(* Revalidation.  The list on screen (the unfiltered one, two pages        *)
(* loaded) is the active query: when it is invalidated it is fetched       *)
(* again.  cancelQueries (every onMutate) and invalidateQueries (every     *)
(* onSettled, cancelRefetch) cancel the fetch in flight: its result is     *)
(* dropped.  hooks.fetch holds the fetch last started: the number of       *)
(* cancellations there had been, and the data its read returned.           *)
(***************************************************************************)
NoFetch == [state |-> "idle"]

\* the calls of cancelQueries and invalidateQueries so far
cancellations(ms) ==
    Cardinality(UNION {{<<j, x>> : x \in {y \in DOMAIN ms[j].log :
                                    ms[j].log[y] \in {"onMutate", "onSettled"}}} :
                       j \in DOMAIN ms})

\* variant: a fetch is never cancelled
isFetchingUncancelled(h, ms) == h.fetch.state = "fetching"

\* the fetch started last has not been cancelled
isFetching(h, ms) ==
    /\ h.fetch.state = "fetching"
    /\ h.fetch.started = cancellations(ms)

\* the active query is invalidated and not being fetched: its queryFn
\* reads the pages from the store
RefetchReads ==
    /\ ~Running(muts)
    /\ auth # NoUser
    /\ stale[hooks.active]
    /\ ~isFetching(hooks, muts)
    /\ hooks' = [hooks EXCEPT !.fetch =
                    [state |-> "fetching", started |-> cancellations(muts),
                     data |-> queryFn(store, cache, hooks.active)]]
    /\ UNCHANGED <<mutationVars, search, auth, form, page>>

\* the fetch returns: its data is written and the query is fresh
RefetchReturns ==
    /\ ~Running(muts)
    /\ isFetching(hooks, muts)
    /\ cache' = [cache EXCEPT ![hooks.active] = hooks.fetch.data]
    /\ stale' = [stale EXCEPT ![hooks.active] = FALSE]
    /\ muts' = Touch(muts, 0, cache' # cache)
    /\ hooks' = [hooks EXCEPT !.fetch = NoFetch]
    /\ UNCHANGED <<store, now, nextDoc, search, auth, form, page>>

ConvergeInit ==
    /\ store = InitialStore
    /\ cache = [k \in QueryKeys |->
                   IF k[3].query = "undefined"
                   THEN queryFn(InitialStore, [q \in QueryKeys |-> Undefined(q)], k)
                   ELSE Undefined(k)]
    /\ stale = [k \in QueryKeys |-> FALSE]
    /\ muts = <<>>
    /\ now = 6
    /\ nextDoc = 6
    /\ search = NoCall
    /\ auth = user
    /\ hooks = [active |-> infinite(NoFilter), fetch |-> NoFetch]
    /\ form = NoForm
    /\ nav = NoNav
    /\ account = NoAccount

\* the record the user edits and deletes
EditedIds == {DocId(1)}

ConvergeNext ==
    \/ RefetchReads
    \/ RefetchReturns
    \/ \E b \in NewBookmarks : AddMutate(b)
    \/ \E id \in EditedIds, u \in Updates : UpdateMutate(id, u)
    \/ \E id \in EditedIds : DeleteMutate(id)
    \/ \E i \in 1..MaxMutations :
          \/ AddOnMutate(i)
          \/ AddBookmarkAddDoc(i)
          \/ AddOnSuccess(i)
          \/ AddOnError(i)
          \/ UpdateOnMutate(i)
          \/ UpdateBookmarkGetDoc(i)
          \/ UpdateBookmarkUpdateDoc(i)
          \/ UpdateOnSuccess(i)
          \/ UpdateOnError(i)
          \/ DeleteOnMutate(i)
          \/ DeleteBookmarkGetDoc(i)
          \/ DeleteBookmarkDeleteDoc(i)
          \/ DeleteOnSuccess(i)
          \/ DeleteOnError(i)
          \/ TransportFailure(i)

ConvergeSpec == ConvergeInit /\ [][ConvergeNext]_vars

(***************************************************************************)
(* Vocabulary of the properties                                            *)
(***************************************************************************)
Bookmarks(c, k, p) == c[k].data[p].bookmarks

Ids(seq) == {seq[x].id : x \in DOMAIN seq}

SortedDesc(seq) ==
    \A x \in DOMAIN seq, y \in DOMAIN seq :
        x < y => seq[x].updatedAt >= seq[y].updatedAt

Occurrences(b, seq) == Cardinality({x \in DOMAIN seq : seq[x] = b})

Has(m, event) == \E x \in DOMAIN m.log : m.log[x] = event

Succeeded(m) == m.phase = "done" /\ Has(m, "onSuccess")

\* mutation i takes a step
Steps(i) ==
    \/ muts'[i].phase # muts[i].phase
    \/ muts'[i].failureCount # muts[i].failureCount

\* mutation i runs its onMutate in this step
Applies(i, kind) ==
    /\ Pending(i, kind, "onMutate")
    /\ muts'[i].phase # "onMutate"

\* mutation i runs its onError (and onSettled) in this step
RollsBack(i) ==
    /\ i \in DOMAIN muts
    /\ muts[i].phase = "rejected"
    /\ muts'[i].phase = "done"

\* mutation i runs its onSuccess (and onSettled) in this step
Reconciles(i) ==
    /\ i \in DOMAIN muts
    /\ muts[i].phase = "resolved"
    /\ muts'[i].phase = "done"

\* what a succeeded mutation shows in the cached lists
EffectVisible(m, c) ==
    CASE m.kind = "update" ->
            \A b \in CachedBookmarks(c) :
                b.id = m.id => \A f \in DOMAIN m.variables : b[f] = m.variables[f]
      [] m.kind = "delete" -> m.id \notin CachedIds(c)
      [] OTHER ->
            \A k \in ListKeys :
                (c[k].has /\ Len(c[k].data) >= 1) =>
                    \E p \in DOMAIN c[k].data : m.docId \in Ids(Bookmarks(c, k, p))

(***************************************************************************)
(* C1: when a mutation's remote call has failed and nothing else wrote the *)
(* cache since its optimistic apply, its failure handler leaves every      *)
(* cache entry (lists and counts) equal to the snapshot taken by onMutate. *)
(***************************************************************************)
C1_RollbackRestoresSnapshot ==
    [][\A i \in DOMAIN muts :
          (RollsBack(i) /\ muts[i].clean) =>
              \A k \in DOMAIN cache : cache'[k] = muts[i].context[k]]_vars

(***************************************************************************)
(* C2: the optimistic apply of a create puts a placeholder with a          *)
(* temporary id at index 0 of the first page of every list that has one;   *)
(* the records cached before follow it in their previous order and the     *)
(* other pages are as they were.                                           *)
(***************************************************************************)
C2_CreatePrependsPlaceholder ==
    [][\A i \in DOMAIN muts :
          Applies(i, "create") =>
              \A k \in ListKeys :
                  (cache[k].has /\ Len(cache[k].data) >= 1) =>
                      /\ cache'[k].has
                      /\ Len(cache'[k].data) = Len(cache[k].data)
                      /\ startsWithTemp(Bookmarks(cache', k, 1)[1].id)
                      /\ Bookmarks(cache', k, 1)[1].id = muts'[i].tempId
                      /\ Tail(Bookmarks(cache', k, 1)) = Bookmarks(cache, k, 1)
                      /\ \A p \in 2..Len(cache[k].data) :
                             cache'[k].data[p] = cache[k].data[p]]_vars

C2_Witness ==
    \E i \in DOMAIN muts :
        /\ muts[i].kind = "create" /\ muts[i].phase = "write"
        /\ \A k \in {infinite(NoFilter), infinite(FavoritesOnly)} :
               /\ Bookmarks(cache, k, 1)[1].id = muts[i].tempId
               /\ Len(Bookmarks(cache, k, 1)) = 3
        /\ ~cache[infinite(TextQuery)].has

(***************************************************************************)
(* C3: the onSuccess of a create replaces the placeholder with that        *)
(* create's temporary id by the saved record and leaves every other cached *)
(* record, the placeholders of other creates included, unchanged.          *)
(***************************************************************************)
C3_SuccessReplacesOwnPlaceholderOnly ==
    [][\A i \in DOMAIN muts :
          (Reconciles(i) /\ muts[i].kind = "create") =>
              \A k \in ListKeys :
                  cache[k].has =>
                      \A p \in DOMAIN cache[k].data :
                          \A x \in DOMAIN Bookmarks(cache, k, p) :
                              IF Bookmarks(cache, k, p)[x].id = muts[i].tempId
                              THEN Bookmarks(cache', k, p)[x].id = muts[i].docId
                              ELSE Bookmarks(cache', k, p)[x] =
                                       Bookmarks(cache, k, p)[x]]_vars

(***************************************************************************)
(* C4: when two mutations were in flight at the same time and one has      *)
(* succeeded, the rollback of the other leaves the succeeded mutation's    *)
(* effect visible in the cached lists, whichever started first.            *)
(***************************************************************************)
C4_RollbackKeepsSucceededEffect ==
    [][\A i \in DOMAIN muts : \A j \in DOMAIN muts :
          (/\ RollsBack(i)
           /\ j \in muts[i].overlap
           /\ Succeeded(muts[j])
           /\ EffectVisible(muts[j], cache)) => EffectVisible(muts[j], cache')]_vars

(***************************************************************************)
(* C5: the optimistic apply of update(id, partialFields) gives every       *)
(* cached occurrence of the record with that id the partial fields and a   *)
(* fresh updatedAt, in every page of every list, and changes the content   *)
(* of no record with another id.                                           *)
(***************************************************************************)
C5_UpdateMergesEveryOccurrence ==
    [][\A i \in DOMAIN muts :
          Applies(i, "update") =>
              \A k \in ListKeys :
                  cache[k].has =>
                      /\ cache'[k].has
                      /\ Len(cache'[k].data) = Len(cache[k].data)
                      /\ \A p \in DOMAIN cache[k].data :
                             LET old == Bookmarks(cache, k, p)
                                 new == Bookmarks(cache', k, p)
                             IN  /\ Len(new) = Len(old)
                                 /\ \A x \in DOMAIN new :
                                        IF new[x].id = muts[i].id
                                        THEN /\ \A f \in DOMAIN muts[i].variables :
                                                    new[x][f] = muts[i].variables[f]
                                             /\ new[x].updatedAt = now
                                             /\ \E y \in DOMAIN old :
                                                    /\ old[y].id = muts[i].id
                                                    /\ new[x].createdAt = old[y].createdAt
                                                    /\ new[x].userId = old[y].userId
                                        ELSE Occurrences(new[x], new) =
                                                 Occurrences(new[x], old)
                                 /\ Cardinality({x \in DOMAIN new : new[x].id = muts[i].id})
                                      = Cardinality({y \in DOMAIN old : old[y].id = muts[i].id})]_vars

C5_Witness ==
    \E i \in DOMAIN muts :
        /\ muts[i].kind = "update" /\ muts[i].phase = "read" /\ muts[i].clean
        /\ muts[i].id = DocId(1)
        /\ Bookmarks(cache, infinite(NoFilter), 2)[2].title = "t"
        /\ Bookmarks(cache, infinite(NoFilter), 2)[2].updatedAt >= 6
        /\ Bookmarks(cache, infinite(FavoritesOnly), 1)[1].title = "t"
        /\ Bookmarks(cache, infinite(NoFilter), 1) = <<r4, r3>>

(***************************************************************************)
(* C6: after the optimistic apply of an update on lists whose pages were   *)
(* each ordered by updatedAt descending, every page that contains the      *)
(* updated record (not only the first) is ordered by updatedAt descending. *)
(***************************************************************************)
C6_UpdateKeepsEveryPageSorted ==
    [][\A i \in DOMAIN muts :
          Applies(i, "update") =>
              \A k \in ListKeys :
                  (/\ cache[k].has
                   /\ \A p \in DOMAIN cache[k].data :
                          SortedDesc(Bookmarks(cache, k, p))) =>
                      \A p \in DOMAIN cache'[k].data :
                          muts[i].id \in Ids(Bookmarks(cache', k, p)) =>
                              SortedDesc(Bookmarks(cache', k, p))]_vars

(***************************************************************************)
(* C7: the optimistic apply of delete(id) leaves no record with that id in *)
(* any page of any list, and every page keeps its other records in their   *)
(* previous order.                                                         *)
(***************************************************************************)
C7_DeleteRemovesEveryOccurrence ==
    [][\A i \in DOMAIN muts :
          Applies(i, "delete") =>
              \A k \in ListKeys :
                  cache[k].has =>
                      /\ cache'[k].has
                      /\ Len(cache'[k].data) = Len(cache[k].data)
                      /\ \A p \in DOMAIN cache[k].data :
                             /\ muts[i].id \notin Ids(Bookmarks(cache', k, p))
                             /\ Bookmarks(cache', k, p) =
                                  SelectSeq(Bookmarks(cache, k, p),
                                            LAMBDA b : b.id # muts[i].id)]_vars

C7_Witness ==
    \E i \in DOMAIN muts :
        /\ muts[i].kind = "delete" /\ muts[i].phase = "read" /\ muts[i].clean
        /\ muts[i].id = DocId(1)
        /\ DocId(1) \notin CachedIds(cache)
        /\ Bookmarks(cache, infinite(NoFilter), 2) = <<r2>>
        /\ Bookmarks(cache, infinite(FavoritesOnly), 1) = <<r3>>

Positions(m, event) == {x \in DOMAIN m.log : m.log[x] = event}

C8_PhaseOrder ==
    \A i \in DOMAIN muts :
        LET m == muts[i]
            calls == Positions(m, "mutationFn")
            handlers == Positions(m, "onSuccess") \cup Positions(m, "onError")
            outcomes == Positions(m, "resolved") \cup Positions(m, "failed")
        IN  /\ Cardinality(Positions(m, "onMutate")) <= 1
            /\ \A x \in calls : \E y \in Positions(m, "onMutate") : y < x
            /\ Cardinality(calls) <= 1 + MutationRetry
            /\ Cardinality(handlers) <= 1
            /\ \A x \in handlers :
                   /\ \A y \in calls : y < x
                   /\ \A y \in calls : \E z \in outcomes : y < z /\ z < x
                   /\ m.log[x] = "onSuccess" <=> m.log[x - 1] = "resolved"
            /\ (m.phase \in {"read", "write", "resolved", "rejected"}) =>
                   (m.hasContext /\ calls # {} /\ handlers = {})
            /\ (m.phase = "resolved" \/ m.phase = "rejected") =>
                   Cardinality(outcomes) = Cardinality(calls)
            /\ m.phase = "done" => handlers # {}

C8_RetryKeepsCache ==
    [][\A i \in DOMAIN muts :
          (muts[i].phase \in {"read", "write"} /\ Steps(i)) =>
              cache' = cache]_vars

(***************************************************************************)
(* C8: within one mutation the optimistic cache write happens once and     *)
(* before the first remote call is issued, the handlers (reconcile or      *)
(* rollback) run only after the remote call has resolved or been rejected  *)
(* for good, and a retried remote call does not write the cache again.     *)
(***************************************************************************)
C8_ThreePhasesOrdered == []C8_PhaseOrder /\ C8_RetryKeepsCache

C8_Witness ==
    \E i \in DOMAIN muts :
        /\ muts[i].phase = "done"
        /\ muts[i].log = <<"onMutate", "mutationFn", "failed", "mutationFn",
                           "resolved", "onSuccess", "onSettled">>

C9_Invalidates ==
    [][\A i \in DOMAIN muts :
          (muts[i].phase # "done" /\ muts'[i].phase = "done") =>
              /\ muts[i].phase \in {"resolved", "rejected"}
              /\ \A k \in QueryKeys : stale'[k]
              /\ muts'[i].log[Len(muts'[i].log)] = "onSettled"
              /\ muts[i].phase = "rejected" =>
                     /\ muts'[i].log[Len(muts'[i].log) - 1] = "onError"
                     /\ cache' = rollback(cache, muts[i].context)]_vars

C9_SettledImpliesInvalidated ==
    (\E i \in DOMAIN muts : muts[i].phase = "done") =>
        \A k \in QueryKeys : stale[k]

(***************************************************************************)
(* C9: every mutation that settles, after success or after failure, ends   *)
(* by invalidating every query of the bookmark namespace (lists and        *)
(* counts); on failure the invalidation comes after the rollback.          *)
(***************************************************************************)
C9_SettledThenInvalidated == []C9_SettledImpliesInvalidated /\ C9_Invalidates

C9_Witness ==
    /\ \E i \in DOMAIN muts : muts[i].phase = "done" /\ Has(muts[i], "onError")
    /\ \E i \in DOMAIN muts : Succeeded(muts[i])
    /\ \A k \in QueryKeys : stale[k]

OwnershipFails(i) ==
    /\ i \in DOMAIN muts
    /\ muts[i].phase = "read"
    /\ \/ ~exists(store, muts[i].id)
       \/ docData(store, muts[i].id).userId # user

C10_FailedCheckWritesNothing ==
    [][/\ \A i \in DOMAIN muts :
            (OwnershipFails(i) /\ Steps(i)) =>
                /\ store' = store
                /\ muts'[i].phase \in {"read", "rejected"}
                /\ muts'[i].failureCount = muts[i].failureCount + 1
       /\ {r.id : r \in store'} \subseteq
              {r.id : r \in store} \cup {DocId(nextDoc)}]_vars

OwnIds ==
    {r.id : r \in {q \in InitialStore : q.userId = user}}
        \cup {DocId(n) : n \in 6..(nextDoc - 1)}

C10_ForeignAndMissingUntouched ==
    /\ \A r \in InitialStore : r.userId # user => r \in store
    /\ \A i \in DOMAIN muts :
           (/\ muts[i].kind # "create"
            /\ muts[i].phase \in {"write", "resolved"} \/ Succeeded(muts[i])) =>
               muts[i].id \in OwnIds

Rejected(m) == m.phase \in {"rejected", "done"} /\ m.failureCount > MutationRetry

\* the attempt that rejected mutation m failed the ownership check
RejectedByOwnership(m) ==
    /\ Rejected(m)
    /\ \E x \in DOMAIN m.log :
          /\ m.log[x] = "denied"
          /\ \A y \in DOMAIN m.log : y > x => m.log[y] # "mutationFn"

(***************************************************************************)
(* C11: an update or delete rejected because the record is missing or      *)
(* belongs to another user hands its caller the error of the ownership     *)
(* check, and one rejected by a failure of the store hands it a different  *)
(* error, so that the caller can tell the two apart.                       *)
(***************************************************************************)
C11_DeniedKeepsItsKind ==
    \A i \in DOMAIN muts :
        (muts[i].kind \in {"update", "delete"} /\ Rejected(muts[i])) =>
            (RejectedByOwnership(muts[i]) <=> muts[i].error = AccessDenied)

(***************************************************************************)
(* Vocabulary of the properties of the search service                      *)
(***************************************************************************)
Searched == search.op = "searchBookmarks"

Counted == search.op = "getBookmarksCount"

\* the stored records a call selects before any text filter: those of the
\* owner, with the favorite flag asked for, after the cursor
Upstream(call) ==
    {d \in store :
        /\ d.userId = call.userId
        /\ "favorite" \in DOMAIN call.searchParams =>
               d.favorite = call.searchParams.favorite
        /\ (call.op = "searchBookmarks" /\ call.lastDoc # NoDoc) =>
               d.updatedAt < call.lastDoc.updatedAt}

Elems(seq) == {seq[x] : x \in DOMAIN seq}

Descending(seq) ==
    \A x \in DOMAIN seq, y \in DOMAIN seq :
        x < y => seq[x].updatedAt > seq[y].updatedAt

Contains(text, q) ==
    \E a \in 0..Len(text), b \in 0..Len(text) :
        a <= b /\ SubSeq(text, a + 1, b) = q

Texts(d) ==
    {d.title, d.url}
        \cup (IF "notes" \in DOMAIN d THEN {d.notes} ELSE {})
        \cup {d.tags[x] : x \in DOMAIN d.tags}

\* record d holds q in its lower-cased title, url, notes or a tag
TextMatch(d, q) == \E t \in Texts(d) : Contains(toLowerCase(t), q)

\* the raw snapshot is the first fetchSize selected records, newest first
RawIsPrefixOfUpstream(call) ==
    /\ Elems(call.docs) \subseteq Upstream(call)
    /\ Descending(call.docs)
    /\ Len(call.docs) = IF Cardinality(Upstream(call)) < call.fetchSize
                        THEN Cardinality(Upstream(call)) ELSE call.fetchSize
    /\ \A d \in Upstream(call) \ Elems(call.docs) :
          \A e \in Elems(call.docs) : d.updatedAt < e.updatedAt

(***************************************************************************)
(* C12: a page fetch reports hasMore whenever the raw snapshot is full (as *)
(* many records as the limit asked for) or at least pageSize records       *)
(* passed the text filter.                                                 *)
(***************************************************************************)
C12_HasMoreWhenFullOrEnough ==
    (/\ Searched
     /\ \/ Len(search.docs) = search.fetchSize
        \/ Len(search.filtered) >= search.pageSize)
        => search.result.hasMore

\* the text a call filters by: the lower-cased, trimmed query, or the empty
\* text when no query is given
SearchText(call) ==
    IF "query" \in DOMAIN call.searchParams
    THEN trim(toLowerCase(call.searchParams.query)) ELSE <<>>

\* the records of the raw snapshot that pass the text filter, in its order
Passing(call) ==
    LET pass(d) == TextMatch(d, SearchText(call))
    IN  SelectSeq(call.docs, pass)

(***************************************************************************)
(* C13: a page fetch asks the store for 2 * pageSize records when a text   *)
(* query is present and for pageSize records otherwise, gets the newest    *)
(* selected records, filters them by the text, and returns the first       *)
(* pageSize records that passed, newest first.                             *)
(***************************************************************************)
C13_OverFetchFilterTruncate ==
    Searched =>
        /\ search.fetchSize =
               IF /\ "query" \in DOMAIN search.searchParams
                  /\ Len(search.searchParams.query) > 0
               THEN 2 * search.pageSize ELSE search.pageSize
        /\ RawIsPrefixOfUpstream(search)
        /\ Len(search.result.bookmarks) <= search.pageSize
        /\ \/ /\ Len(Passing(search)) <= search.pageSize
              /\ search.result.bookmarks = Passing(search)
           \/ /\ Len(Passing(search)) > search.pageSize
              /\ search.result.bookmarks =
                     SubSeq(Passing(search), 1, search.pageSize)
        /\ Descending(search.result.bookmarks)

C13_Witness ==
    /\ Searched
    /\ "query" \in DOMAIN search.searchParams
    /\ Len(search.docs) = 2 * search.pageSize
    /\ Len(search.result.bookmarks) = search.pageSize
    /\ Len(Passing(search)) > search.pageSize
    /\ Len(Passing(search)) < Len(search.docs)

(***************************************************************************)
(* C14: the cursor a page fetch returns is the last record of the raw      *)
(* snapshot, whether or not it passed the filter or was returned, and it   *)
(* is null exactly when the raw snapshot is empty.                         *)
(***************************************************************************)
C14_CursorIsLastRawDocument ==
    Searched =>
        /\ (search.result.lastDoc = NoDoc) <=> (Len(search.docs) = 0)
        /\ Len(search.docs) > 0 =>
               /\ search.result.lastDoc \in Upstream(search)
               /\ search.result.lastDoc \in Elems(search.docs)
               /\ \A d \in Elems(search.docs) :
                      d.updatedAt >= search.result.lastDoc.updatedAt

C14_Witness ==
    /\ Searched
    /\ Len(search.result.bookmarks) > 0
    /\ search.result.lastDoc \in Elems(search.docs)
    /\ search.result.lastDoc \notin Elems(search.result.bookmarks)
    /\ ~TextMatch(search.result.lastDoc, SearchText(search))

\* the records a page fetch kept are those of the raw snapshot that hold
\* text q, in the order of the snapshot
RetainsExactly(call, q) ==
    /\ \A d \in Elems(call.docs) :
          d \in Elems(call.filtered) <=> TextMatch(d, q)
    /\ Elems(call.filtered) \subseteq Elems(call.docs)
    /\ Descending(call.filtered)

(***************************************************************************)
(* C15 as stated: for a non-empty query the filter keeps a record iff the  *)
(* lower-cased query is a substring of its lower-cased title, url, notes   *)
(* or a tag; kept records stay in input order.                             *)
(***************************************************************************)
C15_RetainsLowerCasedQuery ==
    (Searched /\ hasQuery(search.searchParams)) =>
        RetainsExactly(search, toLowerCase(search.searchParams.query))

(***************************************************************************)
(* C15: for a non-empty query the filter keeps a record iff the query,     *)
(* lower-cased and with leading and trailing white space removed, is a     *)
(* substring of its lower-cased title, url, notes (when present) or of a   *)
(* lower-cased tag; kept records stay in input order and the raw list is   *)
(* what the store returned.                                                *)
(***************************************************************************)
C15_RetainsTrimmedLowerCasedQuery ==
    (Searched /\ hasQuery(search.searchParams)) =>
        /\ RetainsExactly(search, trim(toLowerCase(search.searchParams.query)))
        /\ RawIsPrefixOfUpstream(search)

C15_Witness ==
    /\ Searched
    /\ hasQuery(search.searchParams)
    /\ search.searchParams.query = <<" ", "a">>
    /\ Len(search.filtered) >= 3
    /\ Len(search.filtered) < Len(search.docs)

(***************************************************************************)
(* C16: with an empty or absent query a page fetch returns the raw         *)
(* snapshot itself, same records in the same order, and the fetch is the   *)
(* fetch without text query: limit pageSize, hasMore iff the snapshot is   *)
(* full, the cursor and the result of the call that has no query.          *)
(***************************************************************************)
C16_EmptyQueryIsNoQuery ==
    (/\ Searched
     /\ \/ "query" \notin DOMAIN search.searchParams
        \/ search.searchParams.query = <<>>) =>
        LET noQuery == [f \in DOMAIN search.searchParams \ {"query"} |->
                            search.searchParams[f]]
            plain == searchBookmarks(store, search.userId, noQuery,
                                     search.pageSize, search.lastDoc)
        IN  /\ search.result.bookmarks = search.docs
            /\ search.result.totalMatches = Len(search.docs)
            /\ search.fetchSize = search.pageSize
            /\ RawIsPrefixOfUpstream(search)
            /\ search.result.hasMore <=> (Len(search.docs) = search.pageSize)
            /\ search.result = plain.result
            /\ search.docs = plain.docs

C16_Witness ==
    /\ Searched
    /\ "query" \in DOMAIN search.searchParams
    /\ search.searchParams.query = <<>>
    /\ search.pageSize = 2
    /\ Len(search.result.bookmarks) = 2
    /\ search.result.hasMore
    /\ Cardinality(Upstream(search)) > 2

(***************************************************************************)
(* C17: the count for an owner and search parameters is the number of      *)
(* stored records of that owner that have the favorite flag asked for      *)
(* (when given) and hold the text asked for (when given); the aggregate    *)
(* of the server is used without text and the fetch-all count with text,   *)
(* and both give that number.                                              *)
(***************************************************************************)
C17_CountMatchesReference ==
    Counted =>
        /\ search.result =
               Cardinality({d \in Upstream(search) :
                               TextMatch(d, SearchText(search))})
        /\ search.path = "getDocs" <=> SearchText(search) # <<>>

C17_Witness ==
    /\ Counted
    /\ search.path = "getDocs"
    /\ "favorite" \in DOMAIN search.searchParams
    /\ search.result > 0
    /\ search.result < Cardinality(Upstream(search))
    /\ \E d \in store : d.userId # search.userId

(***************************************************************************)
(* C18: with no authenticated user every core operation (create, update,   *)
(* delete, list page, count) ends in the Unauthenticated error: a mutation *)
(* rejected while the user is null carries that error, and the list and    *)
(* the count hooks, once at rest, hold it too.                             *)
(***************************************************************************)
RefusedMutations ==
    \A i \in DOMAIN muts :
        muts[i].phase = "rejected" => muts[i].error = Unauthenticated

AtRest(q) == q.fetchStatus = "idle"

RefusedQuery(q) == AtRest(q) => q.status = "error" /\ q.error = Unauthenticated

C18_NoUserRefusesEveryOperation ==
    auth = NoUser =>
        /\ RefusedMutations
        /\ RefusedQuery(hooks.list)
        /\ RefusedQuery(hooks.count)

C18_NoUserRefusesMutations == auth = NoUser => RefusedMutations

(***************************************************************************)
(* C19: a create or update whose title is empty after trimming, or whose   *)
(* url is empty or does not parse as a URL, is rejected locally: while     *)
(* such a form is on screen and nothing is in flight, no step (its         *)
(* submission included) starts a mutation, touches the cache or reaches    *)
(* the store.                                                              *)
(***************************************************************************)
Blank(text) == \A x \in DOMAIN text : text[x] = " "

InvalidInput(formData) ==
    \/ Blank(formData.title)
    \/ formData.url = <<>>
    \/ ~parsesAsURL(formData.url)

C19_InvalidInputRejectedLocally ==
    [][(form # NoForm /\ ~isLoading /\ InvalidInput(form))
          => (muts' = muts /\ cache' = cache /\ store' = store)]_vars

\* an edit form whose url has a scheme but no host was submitted and marked,
\* after an earlier submission had gone through
C19_Witness ==
    /\ form # NoForm
    /\ form.mode = "edit"
    /\ ~Blank(form.title)
    /\ form.url = http \o <<":", "/", "/">>
    /\ form.errors = {"url"}
    /\ Len(muts) = 1
    /\ muts[1].phase = "done"
    /\ Succeeded(muts[1])

(***************************************************************************)
(* C20: for one query identity at most one fetch-next-page request is in   *)
(* flight at any time, so that no page is fetched twice concurrently: the  *)
(* reads of a next page that are on the wire number at most one.           *)
(***************************************************************************)
NextPageReads == {x \in DOMAIN hooks.wire : hooks.wire[x].direction = "forward"}

C20_OneNextPageFetchInFlight == Cardinality(NextPageReads) <= 1

\* the part that holds: a next-page read is only sent while the query
\* reports no next-page fetch as pending
C20_TriggersWaitForPendingFetch ==
    [][Cardinality(NextPageReads') > Cardinality(NextPageReads)
          => ~isFetchingNextPage(hooks.list)]_vars

(***************************************************************************)
(* C21: search parameters round-trip through the URL: when the page is     *)
(* loaded from the address bar that the debounced search wrote for an      *)
(* input state, the restored search parameters are the ones the search     *)
(* handler produced for that input state (same presence and value of query *)
(* and favorite).                                                          *)
(***************************************************************************)
C21_UrlRoundTrip ==
    [][(nav.loaded /\ nav.phase = "synced" /\ nav'.phase = "restored")
          => nav'.searchParams = nav.searchParams]_vars

\* restored from the address bar: a query text that looks percent-encoded,
\* with the favourites filter
C21_Witness ==
    /\ nav.loaded
    /\ nav.phase = "restored"
    /\ nav.searchParams = [query |-> <<"%", "2", "B">>, favorite |-> TRUE]

(***************************************************************************)
(* C22: for every stored record, userId and createdAt keep the values set  *)
(* at creation under any sequence of adapter updates with any partial      *)
(* fields, and updatedAt after an update is the clock value of the store,  *)
(* never a value supplied by the caller.                                   *)
(***************************************************************************)
Stored(st, id) == CHOOSE r \in st : r.id = id

StoredIds(st) == {r.id : r \in st}

C22_UpdateKeepsOwnerAndCreation ==
    [][\A id \in StoredIds(store) \cap StoredIds(store') :
          /\ Stored(store', id).userId = Stored(store, id).userId
          /\ Stored(store', id).createdAt = Stored(store, id).createdAt
          /\ Stored(store', id) # Stored(store, id)
                => Stored(store', id).updatedAt = now]_vars

\* the part that holds: updatedAt is the clock of the store
C22_UpdatedAtIsStoreClock ==
    [][\A id \in StoredIds(store) \cap StoredIds(store') :
          Stored(store', id) # Stored(store, id)
              => Stored(store', id).updatedAt = now]_vars

(***************************************************************************)
(* C23: starting from a tag list without case-insensitive duplicates,      *)
(* after any sequence of add-tag and remove-tag operations of the tag      *)
(* editor the list contains no two entries that are equal ignoring case.   *)
(***************************************************************************)
EqualIgnoringCase(a, b) == toLowerCase(a) = toLowerCase(b)

NoDuplicateIgnoringCase(tags) ==
    \A x, y \in DOMAIN tags : EqualIgnoringCase(tags[x], tags[y]) => x = y

C23_TagsStayUniqueIgnoringCase == NoDuplicateIgnoringCase(form.value)

\* the part that holds: a list of lower-case tags stays without duplicates
LowerCased(tags) == \A x \in DOMAIN tags : toLowerCase(tags[x]) = tags[x]

C23_LowerCaseTagsStayUnique ==
    LowerCased(form.value) => NoDuplicateIgnoringCase(form.value)

(***************************************************************************)
(* C24: uniqueTagsCount of the statistics equals the size of the union of  *)
(* all tags of the user's records compared case-insensitively: two tags    *)
(* that differ only in letter case are counted once.                       *)
(***************************************************************************)
TagsIgnoringCase(docs) ==
    UNION {{toLowerCase(d.tags[x]) : x \in DOMAIN d.tags} : d \in docs}

C24_UniqueTagsIgnoreCase ==
    search.op = "useBookmarkStats"
        => search.result.uniqueTagsCount =
               Cardinality(TagsIgnoringCase({d \in store : d.userId = auth}))

\* the part that holds: the count is that of the tags as written
TagsAsWritten(docs) == UNION {{d.tags[x] : x \in DOMAIN d.tags} : d \in docs}

C24_UniqueTagsAsWritten ==
    search.op = "useBookmarkStats"
        => search.result.uniqueTagsCount =
               Cardinality(TagsAsWritten({d \in store : d.userId = auth}))

(***************************************************************************)
(* C25: account deletion is ordered: the identity is deleted only after    *)
(* the deletion of every bookmark owned by the user has completed          *)
(* successfully; if listing or deleting them fails, the identity deletion  *)
(* is not attempted and the error reaches the caller; after a successful   *)
(* account deletion no stored bookmark has that userId.                    *)
(***************************************************************************)
Owned(st, userId) == {d \in st : d.userId = userId}

AllCommitted(a) == \A x \in DOMAIN a.batches : a.batches[x].state = "committed"

\* deleteUser is called only once every batch has been committed
C25_IdentityAfterBookmarks ==
    [][account'.step = "deleteUser" /\ account.step # "deleteUser"
          => account.step \in {"listing", "committing"} /\ AllCommitted(account')]_vars

\* a failure of the listing or of a commit ends the call with its error
C25_FailureStopsBeforeIdentity ==
    [][(account.step \in {"listing", "committing"}
           /\ account'.step \notin {"listing", "committing", "deleteUser"})
          => account'.step = "failed" /\ account'.error # NoError]_vars

C25_DeletedAccountOwnsNothing ==
    account.step = "done" => Owned(store, account.userId) = {}

C25_AccountDeletionOrdered ==
    /\ C25_IdentityAfterBookmarks
    /\ C25_FailureStopsBeforeIdentity
    /\ []C25_DeletedAccountOwnsNothing

(***************************************************************************)
(* Paging to the end of a list                                             *)
(***************************************************************************)
\* the records of all pages fetched so far, in the order of the pages
RECURSIVE Flattened(_)
Flattened(pages) ==
    IF pages = <<>> THEN <<>>
    ELSE Head(pages).bookmarks \o Flattened(Tail(pages))

\* the list was followed until getNextPageParam gave no cursor
PagedToEnd ==
    /\ search # NoCall
    /\ search.op = "useInfiniteBookmarks"
    /\ ~search.pages[Len(search.pages)].hasMore

\* the stored records of the owner that match the favorite filter and the
\* text query of the list, newest first
AllMatching ==
    LET owned == orderBy(where(store, user, search.searchParams))
    IN  IF hasText(search.searchParams)
        THEN filterBookmarksByQuery(owned, search.searchParams.query)
        ELSE owned

\* C26: following the cursors from the first page until hasMore is false
\* returns every matching stored record of the owner exactly once
C26_PagingCompleteAndDuplicateFree ==
    PagedToEnd => Flattened(search.pages) = AllMatching

\* C26 for lists without a query: the raw fetch is the page, and the pages
\* together are the matching records
C26_PagingWithoutQueryComplete ==
    (PagedToEnd /\ ~hasQuery(search.searchParams))
        => Flattened(search.pages) = AllMatching

\* C26: no record is returned twice, with or without a text query
C26_PagingDuplicateFree ==
    (search # NoCall /\ search.op = "useInfiniteBookmarks")
        => LET all == Flattened(search.pages)
           IN  \A x, y \in DOMAIN all : all[x].id = all[y].id => x = y

(***************************************************************************)
(* The records of a cached list and the parameters in its key              *)
(***************************************************************************)
\* the record satisfies the search parameters of the key.  The texts of
\* the cached records are single lower-case letters, for which the
\* case-insensitive String.includes is equality
SatisfiesFilters(bookmark, filters) ==
    /\ filters.favorite = "true" => bookmark.favorite
    /\ filters.query # "undefined" => bookmark.title = filters.query

\* C27: every record of a cached list entry satisfies the search parameters
\* of the entry's key, also while mutations are in flight
C27_EntriesHoldOnlyMatchingRecords ==
    \A k \in ListKeys :
        cache[k].has =>
            \A p \in DOMAIN cache[k].data :
                \A x \in DOMAIN Bookmarks(cache, k, p) :
                    SatisfiesFilters(Bookmarks(cache, k, p)[x], k[3])

(***************************************************************************)
(* The owners of the cached entries                                        *)
(***************************************************************************)
\* C28: a cached list whose key carries owner U holds only records of U
C28_EntriesHoldOnlyOwnRecords ==
    \A k \in DOMAIN cache :
        (k[2] = "infinite" /\ cache[k].has) =>
            \A p \in DOMAIN cache[k].data :
                \A x \in DOMAIN Bookmarks(cache, k, p) :
                    Bookmarks(cache, k, p)[x].userId = k[3].userId

\* C28: a step of a mutation changes no list or count entry keyed by
\* another owner than the signed-in user
C28_MutationsLeaveOtherOwnersEntries ==
    [][muts' # muts =>
          \A k \in DOMAIN cache : k[3].userId # auth => cache'[k] = cache[k]]_vars

\* C28: the cache entries are isolated per owner
C28_CacheIsolatedPerOwner ==
    /\ []C28_EntriesHoldOnlyOwnRecords
    /\ C28_MutationsLeaveOtherOwnersEntries

(***************************************************************************)
(* The records of one create request                                       *)
(***************************************************************************)
\* the stored records written for create request i
RecordsOf(i) ==
    {d \in store \ InitialStore : d.title = muts[i].variables.title}

\* the response of an attempt of request i was lost
ResponseLost(i) == \E x \in DOMAIN muts[i].log : muts[i].log[x] = "lost"

\* C29: one create request results in at most one stored record, for every
\* outcome of the remote call
C29_OneRecordPerCreateRequest ==
    \A i \in DOMAIN muts :
        muts[i].kind = "create" => Cardinality(RecordsOf(i)) <= 1

\* C29 for the requests none of whose responses was lost: a rejected
\* attempt wrote nothing, and the retry writes at most once
C29_OneRecordWhenNoResponseLost ==
    \A i \in DOMAIN muts :
        (muts[i].kind = "create" /\ ~ResponseLost(i))
            => Cardinality(RecordsOf(i)) <= 1

(***************************************************************************)
(* Convergence of the list on screen                                       *)
(***************************************************************************)
\* every mutation has settled and the revalidation of the active list has
\* completed
Revalidated ==
    /\ InFlight(muts) = {}
    /\ ~stale[hooks.active]
    /\ ~isFetching(hooks, muts)

\* the first page the store holds for the parameters of key k
StoreFirstPage(k) ==
    searchBookmarks(store, k[3].userId, searchParamsOf(k[3]), HookPageSize,
                    NoDoc).result.bookmarks

\* C30: once every mutation has settled and the revalidation fetches have
\* completed, the active list holds no record with a temporary id and its
\* first page is the first page of the store for its parameters
C30_SettledListConverges ==
    Revalidated =>
        /\ cache[hooks.active].has
        /\ \A p \in DOMAIN cache[hooks.active].data :
               \A x \in DOMAIN Bookmarks(cache, hooks.active, p) :
                   ~startsWithTemp(Bookmarks(cache, hooks.active, p)[x].id)
        /\ Bookmarks(cache, hooks.active, 1) = StoreFirstPage(hooks.active)

\* concurrent mutations, one of them a create and one with a failed
\* attempt, have changed the store and the list was revalidated
C30_Witness ==
    /\ Revalidated
    /\ store # InitialStore
    /\ \E i, j \in DOMAIN muts :
          /\ j \in muts[i].overlap
          /\ muts[i].kind = "create"
          /\ muts[j].failureCount > 0

====
